---- MODULE Spec2Model ----
(***************************************************************************)
(* A model of scripts/asm4004.py, the two-pass Intel 4004 assembler.       *)
(* Source text is modelled as sequences of one-character strings, so that  *)
(* comment stripping, label splitting, the inline-EQU pattern, number and  *)
(* register parsing are computed as the code computes them.                *)
(***************************************************************************)
EXTENDS Integers, Sequences, FiniteSets, TLC

(***************************************************************************)
(* Optional values: Python's None / a value.                               *)
(***************************************************************************)
None == [ok |-> FALSE, v |-> 0]
Some(x) == [ok |-> TRUE, v |-> x]
NoneStr == [ok |-> FALSE, v |-> <<>>]

(***************************************************************************)
(* Character classes.                                                      *)
(***************************************************************************)
DecDigits == {"0","1","2","3","4","5","6","7","8","9"}
UpperLetters == {"A","B","C","D","E","F","G","H","I","J","K","L","M",
                 "N","O","P","Q","R","S","T","U","V","W","X","Y","Z"}
LowerLetters == {"a","b","c","d","e","f","g","h","i","j","k","l","m",
                 "n","o","p","q","r","s","t","u","v","w","x","y","z"}
WhiteSpace == {" ", "\t", "\n", "\r"}
\* the characters the pattern class \w accepts
WordChars == DecDigits \cup UpperLetters \cup LowerLetters \cup {"_"}

UpperOf ==
  [c \in LowerLetters |->
     CASE c = "a" -> "A" [] c = "b" -> "B" [] c = "c" -> "C" [] c = "d" -> "D"
       [] c = "e" -> "E" [] c = "f" -> "F" [] c = "g" -> "G" [] c = "h" -> "H"
       [] c = "i" -> "I" [] c = "j" -> "J" [] c = "k" -> "K" [] c = "l" -> "L"
       [] c = "m" -> "M" [] c = "n" -> "N" [] c = "o" -> "O" [] c = "p" -> "P"
       [] c = "q" -> "Q" [] c = "r" -> "R" [] c = "s" -> "S" [] c = "t" -> "T"
       [] c = "u" -> "U" [] c = "v" -> "V" [] c = "w" -> "W" [] c = "x" -> "X"
       [] c = "y" -> "Y" [] c = "z" -> "Z"]

\* value of a digit character in bases up to 16, -1 for any other character
DigitVal(c) ==
  CASE c = "0" -> 0 [] c = "1" -> 1 [] c = "2" -> 2 [] c = "3" -> 3
    [] c = "4" -> 4 [] c = "5" -> 5 [] c = "6" -> 6 [] c = "7" -> 7
    [] c = "8" -> 8 [] c = "9" -> 9
    [] c \in {"A","a"} -> 10 [] c \in {"B","b"} -> 11 [] c \in {"C","c"} -> 12
    [] c \in {"D","d"} -> 13 [] c \in {"E","e"} -> 14 [] c \in {"F","f"} -> 15
    [] OTHER -> 0 - 1

(***************************************************************************)
(* String helpers (str.strip, str.upper, str.split, str.find).             *)
(***************************************************************************)
Tail_n(s, n) == SubSeq(s, n + 1, Len(s))

RECURSIVE LStrip(_)
LStrip(s) == IF s # <<>> /\ Head(s) \in WhiteSpace THEN LStrip(Tail(s)) ELSE s

RECURSIVE RStrip(_)
RStrip(s) ==
  IF s # <<>> /\ s[Len(s)] \in WhiteSpace THEN RStrip(SubSeq(s, 1, Len(s) - 1)) ELSE s

trim(s) == RStrip(LStrip(s))

to_upper(s) == [i \in 1..Len(s) |-> IF s[i] \in LowerLetters THEN UpperOf[s[i]] ELSE s[i]]

\* index of the first occurrence of character c in s, 0 when absent
Find(s, c) ==
  IF \E i \in 1..Len(s) : s[i] = c
  THEN CHOOSE i \in 1..Len(s) : s[i] = c /\ \A j \in 1..(i - 1) : s[j] # c
  ELSE 0

\* s.split(c, 1) for a string that contains c
SplitOnce(s, c) ==
  LET i == Find(s, c) IN <<SubSeq(s, 1, i - 1), Tail_n(s, i)>>

\* s.split(c)
RECURSIVE SplitAll(_, _)
SplitAll(s, c) ==
  LET i == Find(s, c) IN
  IF i = 0 THEN <<s>> ELSE <<SubSeq(s, 1, i - 1)>> \o SplitAll(Tail_n(s, i), c)

\* length of the longest prefix of s whose characters are all in set cs
RECURSIVE Span(_, _)
Span(s, cs) == IF s # <<>> /\ Head(s) \in cs THEN 1 + Span(Tail(s), cs) ELSE 0

\* s.split(maxsplit=1): the first word, and the rest with the separating
\* white space removed (a one-element result when there is no rest)
SplitWordAt(t, n) ==
  IF LStrip(Tail_n(t, n)) = <<>> THEN <<SubSeq(t, 1, n)>>
  ELSE <<SubSeq(t, 1, n), LStrip(Tail_n(t, n))>>
NonSpaceSpan(t) == Span(t, {t[i] : i \in 1..Len(t)} \ WhiteSpace)
SplitWordOf(t) == SplitWordAt(t, NonSpaceSpan(t))
SplitWord(s) == SplitWordOf(LStrip(s))

startswith(s, p) == Len(s) >= Len(p) /\ SubSeq(s, 1, Len(p)) = p

remove_comment(line) ==
  IF Find(line, ";") # 0 THEN trim(SplitOnce(line, ";")[1]) ELSE trim(line)

normalize_symbol(name) == to_upper(trim(name))

(***************************************************************************)
(* Bit operations on Python integers.                                      *)
(***************************************************************************)
RECURSIVE Pow2(_)
Pow2(n) == IF n = 0 THEN 1 ELSE 2 * Pow2(n - 1)

\* x & (2^w - 1): Python masks the two's complement of a negative value
Mask(x, w) == x % Pow2(w)

\* x >> n, an arithmetic shift (floor division)
Shr(x, n) == x \div Pow2(n)

\* a | b for 0 <= a, b < 256
RECURSIVE BitOr(_, _)
BitOr(a, b) ==
  IF a = 0 THEN b
  ELSE IF b = 0 THEN a
  ELSE (IF (a % 2) + (b % 2) > 0 THEN 1 ELSE 0) + 2 * BitOr(a \div 2, b \div 2)

(***************************************************************************)
(* Python's int(text, base) for base 2, 10 and 16: surrounding white space *)
(* is ignored, a sign is accepted, a 0x/0X (base 16) or 0b/0B (base 2)     *)
(* prefix is accepted, and single underscores may separate digits.         *)
(* ValueError is the result None.  Intermediate values are handed on as    *)
(* operator arguments.                                                     *)
(***************************************************************************)
BasePrefix(base) ==
  IF base = 16 THEN {<<"0","x">>, <<"0","X">>}
  ELSE IF base = 2 THEN {<<"0","b">>, <<"0","B">>}
  ELSE {}

IsDigitIn(c, base) == DigitVal(c) >= 0 /\ DigitVal(c) < base

\* digits with single underscores between them; after a base prefix one
\* underscore may also come first
WellFormedDigits(d, base, afterPrefix) ==
  /\ d # <<>>
  /\ \A i \in 1..Len(d) : d[i] = "_" \/ IsDigitIn(d[i], base)
  /\ d[Len(d)] # "_"
  /\ (d[1] = "_" => afterPrefix)
  /\ \A i \in 1..(Len(d) - 1) : ~(d[i] = "_" /\ d[i + 1] = "_")

RECURSIVE DigitsValue(_, _, _)
DigitsValue(d, base, acc) ==
  IF d = <<>> THEN acc
  ELSE IF Head(d) = "_" THEN DigitsValue(Tail(d), base, acc)
  ELSE DigitsValue(Tail(d), base, acc * base + DigitVal(Head(d)))

PyIntDigits(d, base, prefixed, sign) ==
  IF WellFormedDigits(d, base, prefixed) THEN Some(sign * DigitsValue(d, base, 0)) ELSE None

HasPrefix(body, base) == Len(body) >= 2 /\ SubSeq(body, 1, 2) \in BasePrefix(base)

PyIntBody(body, base, sign) ==
  PyIntDigits(IF HasPrefix(body, base) THEN Tail_n(body, 2) ELSE body, base,
              HasPrefix(body, base), sign)

PyIntStripped(s, base) ==
  IF s # <<>> /\ s[1] \in {"+", "-"}
  THEN PyIntBody(Tail(s), base, IF s[1] = "-" THEN 0 - 1 ELSE 1)
  ELSE PyIntBody(s, base, 1)

PyInt(text, base) == PyIntStripped(trim(text), base)

\* parse_number on the trimmed text s
ParseTrimmed(s) ==
  IF s = <<>> THEN None
  ELSE IF startswith(s, <<"0","x">>) \/ startswith(s, <<"0","X">>) THEN PyInt(s, 16)
  ELSE IF startswith(s, <<"$">>) THEN PyInt(Tail(s), 16)
  ELSE IF s[Len(s)] \in {"h", "H"} THEN PyInt(SubSeq(s, 1, Len(s) - 1), 16)
  ELSE IF startswith(s, <<"0","b">>) \/ startswith(s, <<"0","B">>) THEN PyInt(s, 2)
  ELSE PyInt(s, 10)

parse_number(text) == ParseTrimmed(trim(text))

\* the range check of parse_register on the parsed number
RegisterRange(val) == IF val.ok /\ 0 <= val.v /\ val.v <= 15 THEN val ELSE None

ParseRegisterUpper(s) ==
  IF startswith(s, <<"R">>) THEN RegisterRange(parse_number(Tail(s))) ELSE None

parse_register(text) == ParseRegisterUpper(to_upper(trim(text)))

\* the pattern ^R(\d{1,2})R(\d{1,2})$ : the two digit groups, or none.
\* n1 digits follow the first R; t is the text from the second R on.
PairSecond(s, n1, t, n2) ==
  IF /\ startswith(s, <<"R">>) /\ n1 \in {1, 2}
     /\ startswith(t, <<"R">>) /\ n2 \in {1, 2}
     /\ Len(t) = 1 + n2
  THEN [ok |-> TRUE, r1 |-> DigitsValue(SubSeq(s, 2, 1 + n1), 10, 0),
                     r2 |-> DigitsValue(Tail(t), 10, 0)]
  ELSE [ok |-> FALSE, r1 |-> 0, r2 |-> 0]

PairFirst(s, n1, t) == PairSecond(s, n1, t, IF t # <<>> THEN Span(Tail(t), DecDigits) ELSE 0)

PairDigits(s, n1) == PairFirst(s, n1, IF s # <<>> THEN Tail_n(s, 1 + n1) ELSE <<>>)

PairPattern(s) == PairDigits(s, IF s # <<>> THEN Span(Tail(s), DecDigits) ELSE 0)

PairIndex(m) == IF m.ok /\ m.r1 % 2 = 0 /\ m.r2 = m.r1 + 1 THEN Some(m.r1 \div 2) ELSE None

parse_register_pair(text) == PairIndex(PairPattern(to_upper(trim(text))))

(***************************************************************************)
(* The symbol table: a function from normalized names to integers.         *)
(***************************************************************************)
NoSymbols == [n \in {} |-> 0]

\* StoreKey keeping the first value of a name already defined
StoreKey_KeepFirst(symbols, key, value) ==
  [n \in DOMAIN symbols \cup {key} |-> IF n \in DOMAIN symbols THEN symbols[n] ELSE value]

StoreKey(symbols, key, value) ==
  [n \in DOMAIN symbols \cup {key} |-> IF n = key THEN value ELSE symbols[n]]

store_symbol(symbols, name, value) == StoreKey(symbols, normalize_symbol(name), value)

LookupKey(symbols, key) == IF key \in DOMAIN symbols THEN Some(symbols[key]) ELSE None

\* the lookup branch shared by resolve_simple_value and resolve_register
Lookup(symbols, token) == LookupKey(symbols, normalize_symbol(token))

\* FirstOf with the symbol table consulted before the literals
FirstOf_SymbolFirst(val, reg, sym) == IF sym.ok THEN sym ELSE IF val.ok THEN val ELSE reg

\* number first, then register, then symbol
FirstOf(val, reg, sym) == IF val.ok THEN val ELSE IF reg.ok THEN reg ELSE sym

ResolveToken(symbols, token) ==
  IF token = <<>> THEN None
  ELSE FirstOf(parse_number(token), parse_register(token), Lookup(symbols, token))

resolve_simple_value(symbols, text) == ResolveToken(symbols, trim(text))

\* str.replace(' ', '')
RECURSIVE RemoveSpaces(_)
RemoveSpaces(s) ==
  IF s = <<>> THEN <<>>
  ELSE IF Head(s) = " " THEN RemoveSpaces(Tail(s))
  ELSE <<Head(s)>> \o RemoveSpaces(Tail(s))

\* The loop state of evaluate_expression: total, term, sign, seen_term, and
\* failed once a term did not resolve (the early "return None").
\* AddTerm is the "if term:" block, run at an operator and after the loop.
\* AddTerm adding every term, whatever its sign
AddTerm_Unsigned(st, value) ==
  IF ~value.ok THEN [st EXCEPT !.failed = TRUE]
  ELSE [st EXCEPT !.total = st.total + value.v, !.term = <<>>, !.seen_term = TRUE]

AddTerm(st, value) ==
  IF ~value.ok THEN [st EXCEPT !.failed = TRUE]
  ELSE [st EXCEPT !.total = st.total + st.sign * value.v, !.term = <<>>,
                  !.seen_term = TRUE]

\* ExprTerm dropping a term that does not resolve instead of failing
ExprTerm_SkipsUnknown(symbols, st) ==
  IF st.term = <<>> \/ ~resolve_simple_value(symbols, st.term).ok
  THEN [st EXCEPT !.term = <<>>]
  ELSE AddTerm(st, resolve_simple_value(symbols, st.term))

ExprTerm(symbols, st) ==
  IF st.term = <<>> THEN st ELSE AddTerm(st, resolve_simple_value(symbols, st.term))

SetSign(flushed, ch) ==
  IF flushed.failed THEN flushed
  ELSE [flushed EXCEPT !.sign = IF ch = "+" THEN 1 ELSE 0 - 1]

\* one iteration of "for ch in expr"
ExprChar(symbols, st, ch) ==
  IF st.failed THEN st
  ELSE IF ch \in {"+", "-"} THEN SetSign(ExprTerm(symbols, st), ch)
  ELSE [st EXCEPT !.term = st.term \o <<ch>>]

RECURSIVE ExprLoop(_, _, _)
ExprLoop(symbols, expr, st) ==
  IF expr = <<>> THEN st
  ELSE ExprLoop(symbols, Tail(expr), ExprChar(symbols, st, Head(expr)))

ExprResult(st) == IF ~st.failed /\ st.seen_term THEN Some(st.total) ELSE None

ExprStart == [total |-> 0, term |-> <<>>, sign |-> 1, seen_term |-> FALSE, failed |-> FALSE]

ExprAfterLoop(symbols, st) == IF st.failed THEN st ELSE ExprTerm(symbols, st)

EvaluateStripped(symbols, expr) ==
  IF expr = <<>> \/ (Find(expr, "+") = 0 /\ Find(expr, "-") = 0) THEN None
  ELSE ExprResult(ExprAfterLoop(symbols, ExprLoop(symbols, expr, ExprStart)))

evaluate_expression(symbols, text) == EvaluateStripped(symbols, RemoveSpaces(text))

\* resolve_value: a value, or the ValueError it raises
Value(v) == [ok |-> TRUE, v |-> v, err |-> ""]
ValueError(err) == [ok |-> FALSE, v |-> 0, err |-> err]

SimpleOrExpr(simple, expr) ==
  IF simple.ok THEN Value(simple.v)
  ELSE IF expr.ok THEN Value(expr.v)
  ELSE ValueError("UnknownSymbol")

ResolveTrimmed(symbols, token) ==
  IF token = <<>> THEN ValueError("MissingValue")
  ELSE SimpleOrExpr(resolve_simple_value(symbols, token),
                    evaluate_expression(symbols, token))

resolve_value(symbols, text) == ResolveTrimmed(symbols, trim(text))

RegisterOr(reg, val) ==
  IF reg.ok THEN reg
  ELSE IF val.ok /\ 0 <= val.v /\ val.v <= 15 THEN val ELSE None

resolve_register(symbols, token) == RegisterOr(parse_register(token), Lookup(symbols, token))

\* PairOr taking an odd register for the pair it lies in
PairOr_AnyRegister(pair, reg) ==
  IF pair.ok THEN pair
  ELSE IF reg.ok THEN Some(reg.v \div 2) ELSE None

PairOr(pair, reg) ==
  IF pair.ok THEN pair
  ELSE IF reg.ok /\ reg.v % 2 = 0 THEN Some(reg.v \div 2) ELSE None

resolve_register_pair(symbols, token) ==
  PairOr(parse_register_pair(token), resolve_register(symbols, token))

(***************************************************************************)
(* The instruction table.                                                  *)
(***************************************************************************)
INSTRUCTION_SET ==
    {
     [mnemonic |-> <<"N","O","P">>, opcode |-> 0, op_type |-> "NONE"],
     [mnemonic |-> <<"W","R","M">>, opcode |-> 224, op_type |-> "NONE"],
     [mnemonic |-> <<"W","M","P">>, opcode |-> 225, op_type |-> "NONE"],
     [mnemonic |-> <<"W","R","R">>, opcode |-> 226, op_type |-> "NONE"],
     [mnemonic |-> <<"W","R","0">>, opcode |-> 228, op_type |-> "NONE"],
     [mnemonic |-> <<"W","R","1">>, opcode |-> 229, op_type |-> "NONE"],
     [mnemonic |-> <<"W","R","2">>, opcode |-> 230, op_type |-> "NONE"],
     [mnemonic |-> <<"W","R","3">>, opcode |-> 231, op_type |-> "NONE"],
     [mnemonic |-> <<"S","B","M">>, opcode |-> 232, op_type |-> "NONE"],
     [mnemonic |-> <<"R","D","M">>, opcode |-> 233, op_type |-> "NONE"],
     [mnemonic |-> <<"R","D","R">>, opcode |-> 234, op_type |-> "NONE"],
     [mnemonic |-> <<"A","D","M">>, opcode |-> 235, op_type |-> "NONE"],
     [mnemonic |-> <<"R","D","0">>, opcode |-> 236, op_type |-> "NONE"],
     [mnemonic |-> <<"R","D","1">>, opcode |-> 237, op_type |-> "NONE"],
     [mnemonic |-> <<"R","D","2">>, opcode |-> 238, op_type |-> "NONE"],
     [mnemonic |-> <<"R","D","3">>, opcode |-> 239, op_type |-> "NONE"],
     [mnemonic |-> <<"C","L","B">>, opcode |-> 240, op_type |-> "NONE"],
     [mnemonic |-> <<"C","L","C">>, opcode |-> 241, op_type |-> "NONE"],
     [mnemonic |-> <<"I","A","C">>, opcode |-> 242, op_type |-> "NONE"],
     [mnemonic |-> <<"C","M","C">>, opcode |-> 243, op_type |-> "NONE"],
     [mnemonic |-> <<"C","M","A">>, opcode |-> 244, op_type |-> "NONE"],
     [mnemonic |-> <<"R","A","L">>, opcode |-> 245, op_type |-> "NONE"],
     [mnemonic |-> <<"R","A","R">>, opcode |-> 246, op_type |-> "NONE"],
     [mnemonic |-> <<"T","C","C">>, opcode |-> 247, op_type |-> "NONE"],
     [mnemonic |-> <<"D","A","C">>, opcode |-> 248, op_type |-> "NONE"],
     [mnemonic |-> <<"T","C","S">>, opcode |-> 249, op_type |-> "NONE"],
     [mnemonic |-> <<"S","T","C">>, opcode |-> 250, op_type |-> "NONE"],
     [mnemonic |-> <<"D","A","A">>, opcode |-> 251, op_type |-> "NONE"],
     [mnemonic |-> <<"K","B","P">>, opcode |-> 252, op_type |-> "NONE"],
     [mnemonic |-> <<"D","C","L">>, opcode |-> 253, op_type |-> "NONE"],
     [mnemonic |-> <<"S","R","C">>, opcode |-> 33, op_type |-> "REGISTER_PAIR"],
     [mnemonic |-> <<"J","I","N">>, opcode |-> 49, op_type |-> "REGISTER_PAIR"],
     [mnemonic |-> <<"I","N","C">>, opcode |-> 96, op_type |-> "REGISTER"],
     [mnemonic |-> <<"A","D","D">>, opcode |-> 128, op_type |-> "REGISTER"],
     [mnemonic |-> <<"S","U","B">>, opcode |-> 144, op_type |-> "REGISTER"],
     [mnemonic |-> <<"L","D">>, opcode |-> 160, op_type |-> "REGISTER"],
     [mnemonic |-> <<"X","C","H">>, opcode |-> 176, op_type |-> "REGISTER"],
     [mnemonic |-> <<"F","I","N">>, opcode |-> 48, op_type |-> "REGISTER_PAIR"],
     [mnemonic |-> <<"B","B","L">>, opcode |-> 192, op_type |-> "IMMEDIATE"],
     [mnemonic |-> <<"L","D","M">>, opcode |-> 208, op_type |-> "IMMEDIATE"],
     [mnemonic |-> <<"F","I","M">>, opcode |-> 32, op_type |-> "REGISTER_PAIR"],
     [mnemonic |-> <<"J","C","N">>, opcode |-> 16, op_type |-> "CONDITION"],
     [mnemonic |-> <<"J","U","N">>, opcode |-> 64, op_type |-> "ADDRESS"],
     [mnemonic |-> <<"J","M","S">>, opcode |-> 80, op_type |-> "ADDRESS"],
     [mnemonic |-> <<"I","S","Z">>, opcode |-> 112, op_type |-> "REGISTER"]
    }

Mnemonics == {e.mnemonic : e \in INSTRUCTION_SET}
InstOf(mnemonic) == CHOOSE e \in INSTRUCTION_SET : e.mnemonic = mnemonic

M_ORG == <<"O","R","G">>
M_EQU == <<"E","Q","U">>
M_FIM == <<"F","I","M">>
M_ISZ == <<"I","S","Z">>
M_JCN == <<"J","C","N">>
DataByteNames == {<<"D","B">>, <<"B","Y","T","E">>}
DataWordNames == {<<"D","W">>, <<"W","O","R","D">>}

\* The inline-EQU pattern, matched ignoring case: optional white space, a
\* name (a letter or underscore, then word characters), white space, EQU,
\* white space, and a non-empty value text.  t is the text from the name on,
\* n the length of the name, a2 the text from the keyword on, a3 the text
\* after the keyword.
EquMatch(t, n, ws1, a2, a3) ==
  IF /\ n >= 1
     /\ t[1] \in UpperLetters \cup LowerLetters \cup {"_"}
     /\ ws1 >= 1
     /\ Len(a2) >= 3
     /\ to_upper(SubSeq(a2, 1, 3)) = M_EQU
     /\ Len(a3) >= 2
     /\ a3[1] \in WhiteSpace
     /\ \A i \in 1..Len(a3) : a3[i] # "\n"
  THEN [match |-> TRUE, name |-> SubSeq(t, 1, n), value |-> Tail_n(a3, 1)]
  ELSE [match |-> FALSE, name |-> <<>>, value |-> <<>>]

EquKeyword(t, n, ws1, a2) == EquMatch(t, n, ws1, a2, Tail_n(a2, 3))
EquGap(t, n, a1, ws1) == EquKeyword(t, n, ws1, Tail_n(a1, ws1))
EquAfterName(t, n, a1) == EquGap(t, n, a1, Span(a1, WhiteSpace))
EquName(t, n) == EquAfterName(t, n, Tail_n(t, n))
EquFrom(t) == EquName(t, Span(t, WordChars))
EquInline(line) == EquFrom(LStrip(line))

\* mnemonic and operand text of a statement (both passes split alike)
StatementOf(parts) ==
  [mnemonic |-> to_upper(parts[1]),
   operand_str |-> IF Len(parts) > 1 THEN trim(parts[2]) ELSE <<>>]

Statement(line) == StatementOf(SplitWord(line))

\* a line's text after its label, the line itself when it has none
StatementText(line) ==
  IF Find(line, ":") # 0 THEN trim(SplitOnce(line, ":")[2]) ELSE line

(***************************************************************************)
(* Pass 1, one source line.  s is the session (symbols, current_address,  *)
(* org_address, last_label); the result is the session after the line,    *)
(* with err the ValueError raised (or ""), advance the amount added to    *)
(* the address cursor, binds the symbol definitions made, in order, and   *)
(* warned whether the unknown-mnemonic warning was issued.                 *)
(***************************************************************************)
P1Result(s, err, advance, binds, warned) ==
  [symbols |-> s.symbols, current_address |-> s.current_address,
   org_address |-> s.org_address, last_label |-> s.last_label,
   err |-> err, advance |-> advance, binds |-> binds, warned |-> warned]

Binding(name, value, kind) == [name |-> name, value |-> value, kind |-> kind]

\* InstructionLength with FIM counted as a one-byte instruction
InstructionLength_FimOne(mnemonic) ==
  IF 64 <= InstOf(mnemonic).opcode /\ InstOf(mnemonic).opcode < 96 THEN 2
  ELSE IF mnemonic = M_ISZ THEN 2
  ELSE IF mnemonic = M_JCN THEN 2
  ELSE 1

\* number of bytes pass_one counts for a table instruction
InstructionLength(mnemonic) ==
  IF 64 <= InstOf(mnemonic).opcode /\ InstOf(mnemonic).opcode < 96 THEN 2
  ELSE IF mnemonic = M_FIM THEN 2
  ELSE IF mnemonic = M_ISZ THEN 2
  ELSE IF mnemonic = M_JCN THEN 2
  ELSE 1

\* PassOneEquInline binding the name to the address cursor, as a label would be
PassOneEquInline_BindsCursor(s, binds, symbol, val) ==
  IF ~val.ok THEN P1Result(s, val.err, 0, binds, FALSE)
  ELSE P1Result([s EXCEPT !.symbols = store_symbol(s.symbols, symbol, s.current_address),
                          !.last_label = Some(symbol)],
                "", 0, Append(binds, Binding(symbol, val.v, "equ_inline")), FALSE)

\* NAME EQU expr
PassOneEquInline(s, binds, symbol, val) ==
  IF ~val.ok THEN P1Result(s, val.err, 0, binds, FALSE)
  ELSE P1Result([s EXCEPT !.symbols = store_symbol(s.symbols, symbol, val.v),
                          !.last_label = Some(symbol)],
                "", 0, Append(binds, Binding(symbol, val.v, "equ_inline")), FALSE)

\* ORG expr
PassOneOrg(s, binds, val) ==
  IF ~val.ok THEN P1Result(s, val.err, 0, binds, FALSE)
  ELSE P1Result([s EXCEPT !.current_address = val.v, !.org_address = val.v],
                "", 0, binds, FALSE)

\* PassOneEqu without the test for a last label
PassOneEqu_NoCheck(s, binds, val) ==
  IF ~val.ok THEN P1Result(s, val.err, 0, binds, FALSE)
  ELSE P1Result([s EXCEPT !.symbols = store_symbol(s.symbols, s.last_label.v, val.v)],
                "", 0,
                Append(binds, Binding(normalize_symbol(s.last_label.v), val.v, "equ")),
                FALSE)

\* EQU expr
PassOneEqu(s, binds, val) ==
  IF ~s.last_label.ok \/ s.last_label.v = <<>>
  THEN P1Result(s, "EquWithoutLabel", 0, binds, FALSE)
  ELSE IF ~val.ok THEN P1Result(s, val.err, 0, binds, FALSE)
  ELSE P1Result([s EXCEPT !.symbols = store_symbol(s.symbols, s.last_label.v, val.v)],
                "", 0,
                Append(binds, Binding(normalize_symbol(s.last_label.v), val.v, "equ")),
                FALSE)

\* data directives and table instructions: the cursor moves on by count
PassOneAdvance(s, binds, count) ==
  P1Result([s EXCEPT !.current_address = s.current_address + count],
           "", count, binds, FALSE)

OperandCount(operand_str) == Len(SplitAll(operand_str, ","))

\* PassOneUnknown with the unknown mnemonic counted as a one-byte instruction
PassOneUnknown_Counted(s, binds) ==
  P1Result([s EXCEPT !.current_address = s.current_address + 1], "", 1, binds, TRUE)

\* a mnemonic outside the table: a warning when verbose, the cursor stays
PassOneUnknown(s, binds) == P1Result(s, "", 0, binds, TRUE)

PassOneParsed(s, binds, equ, st) ==
  IF equ.match
    THEN PassOneEquInline(s, binds, normalize_symbol(equ.name),
                          resolve_value(s.symbols, trim(equ.value)))
  ELSE IF st.mnemonic = M_ORG
    THEN PassOneOrg(s, binds, resolve_value(s.symbols, st.operand_str))
  ELSE IF st.mnemonic = M_EQU
    THEN PassOneEqu(s, binds, resolve_value(s.symbols, st.operand_str))
  ELSE IF st.mnemonic \in DataByteNames
    THEN PassOneAdvance(s, binds, OperandCount(st.operand_str))
  ELSE IF st.mnemonic \in DataWordNames
    THEN PassOneAdvance(s, binds, OperandCount(st.operand_str) * 2)
  ELSE IF st.mnemonic \in Mnemonics
    THEN PassOneAdvance(s, binds, InstructionLength(st.mnemonic))
  ELSE PassOneUnknown(s, binds)

\* the statement part of a line (after any label), in pass_one
PassOneStatement(s, line, binds) == PassOneParsed(s, binds, EquInline(line), Statement(line))

\* the session once the line's label, if any, is bound to the cursor
\* BindLabel without remembering the label as the last one declared
BindLabel_KeepsLast(s, label) ==
  [s EXCEPT !.symbols = store_symbol(s.symbols, label, s.current_address)]

BindLabel(s, label) ==
  [s EXCEPT !.symbols = store_symbol(s.symbols, label, s.current_address),
            !.last_label = Some(label)]

LabelOf(line) == normalize_symbol(SplitOnce(line, ":")[1])

AfterLabel(s, line) == IF Find(line, ":") # 0 THEN BindLabel(s, LabelOf(line)) ELSE s

LabelBinds(s, line) ==
  IF Find(line, ":") # 0 THEN <<Binding(LabelOf(line), s.current_address, "label")>>
  ELSE <<>>

PassOneRest(s1, b1, stmt) ==
  IF stmt = <<>> THEN P1Result(s1, "", 0, b1, FALSE)
  ELSE PassOneStatement(s1, stmt, b1)

PassOneStripped(s, line) ==
  IF line = <<>> THEN P1Result(s, "", 0, <<>>, FALSE)
  ELSE PassOneRest(AfterLabel(s, line), LabelBinds(s, line), StatementText(line))

PassOneLine(s, raw_line) == PassOneStripped(s, remove_comment(raw_line))

(***************************************************************************)
(* assemble_instruction: the bytes of one table instruction, or the       *)
(* ValueError it raises.                                                   *)
(***************************************************************************)
Encoded(bytes) == [err |-> "", bytes |-> bytes]
Raised(err) == [err |-> err, bytes |-> <<>>]

\* operand_str.split(',') with every part trimmed
TrimAll(parts) == [i \in 1..Len(parts) |-> trim(parts[i])]
TrimmedParts(operand_str) == TrimAll(SplitAll(operand_str, ","))

\* ISZBytes without the address byte
ISZBytes_NoAddress(opcode, reg, addr) ==
  IF ~reg.ok THEN Raised("InvalidIszRegister")
  ELSE IF ~addr.ok THEN Raised(addr.err)
  ELSE Encoded(<<BitOr(opcode, Mask(reg.v, 4))>>)

ISZBytes(opcode, reg, addr) ==
  IF ~reg.ok THEN Raised("InvalidIszRegister")
  ELSE IF ~addr.ok THEN Raised(addr.err)
  ELSE Encoded(<<BitOr(opcode, Mask(reg.v, 4)), Mask(addr.v, 8)>>)

EncodeISZParts(symbols, opcode, parts) ==
  IF Len(parts) # 2 THEN Raised("IszOperands")
  ELSE ISZBytes(opcode, resolve_register(symbols, parts[1]),
                resolve_value(symbols, parts[2]))

EncodeISZ(symbols, opcode, operand_str) ==
  EncodeISZParts(symbols, opcode, TrimmedParts(operand_str))

\* RegisterByte without the register in the low nibble
RegisterByte_OpcodeOnly(opcode, reg) ==
  IF ~reg.ok THEN Raised("InvalidRegister") ELSE Encoded(<<opcode>>)

RegisterByte(opcode, reg) ==
  IF ~reg.ok THEN Raised("InvalidRegister")
  ELSE Encoded(<<BitOr(opcode, Mask(reg.v, 4))>>)

EncodeRegister(symbols, opcode, operand_str) ==
  RegisterByte(opcode, resolve_register(symbols, operand_str))

\* FIM pair, data
FIMByte(opcode, pair, imm) ==
  IF ~pair.ok THEN Raised("InvalidFimPair")
  ELSE IF ~imm.ok THEN Raised(imm.err)
  ELSE Encoded(<<BitOr(opcode, Mask(pair.v, 3)), Mask(imm.v, 8)>>)

\* FIMNibbles with the nibbles joined unmasked
FIMNibbles_Unmasked(opcode, pair, hi, lo) ==
  IF ~pair.ok THEN Raised("InvalidFimPair")
  ELSE IF ~hi.ok THEN Raised(hi.err)
  ELSE IF ~lo.ok THEN Raised(lo.err)
  ELSE Encoded(<<BitOr(opcode, Mask(pair.v, 3)), Mask(hi.v * 16 + lo.v, 8)>>)

\* FIM pair, hi, lo
FIMNibbles(opcode, pair, hi, lo) ==
  IF ~pair.ok THEN Raised("InvalidFimPair")
  ELSE IF ~hi.ok THEN Raised(hi.err)
  ELSE IF ~lo.ok THEN Raised(lo.err)
  ELSE Encoded(<<BitOr(opcode, Mask(pair.v, 3)),
                 Mask(BitOr(Mask(hi.v, 4) * 16, Mask(lo.v, 4)), 8)>>)

EncodeFIMParts(symbols, opcode, parts) ==
  IF ~(2 <= Len(parts) /\ Len(parts) <= 3) THEN Raised("FimOperands")
  ELSE IF Len(parts) = 2
    THEN FIMByte(opcode, resolve_register_pair(symbols, parts[1]),
                 resolve_value(symbols, parts[2]))
  ELSE FIMNibbles(opcode, resolve_register_pair(symbols, parts[1]),
                  resolve_value(symbols, parts[2]), resolve_value(symbols, parts[3]))

EncodeFIM(symbols, opcode, operand_str) ==
  EncodeFIMParts(symbols, opcode, TrimmedParts(operand_str))

PairByte(opcode, pair) ==
  IF ~pair.ok THEN Raised("InvalidRegisterPair")
  ELSE Encoded(<<BitOr(opcode, Mask(pair.v, 3))>>)

EncodePair(symbols, opcode, operand_str) ==
  PairByte(opcode, resolve_register_pair(symbols, operand_str))

\* ImmediateByte with a range check in place of the mask
ImmediateByte_Checked(opcode, val) ==
  IF ~val.ok THEN Raised(val.err)
  ELSE IF val.v \notin 0..15 THEN Raised("OutOfRange")
  ELSE Encoded(<<BitOr(opcode, val.v)>>)

ImmediateByte(opcode, val) ==
  IF ~val.ok THEN Raised(val.err)
  ELSE Encoded(<<BitOr(opcode, Mask(val.v, 4))>>)

\* EncodeImmediate through simple resolution only, without expressions
EncodeImmediate_Simple(symbols, opcode, operand_str) ==
  ImmediateByte(opcode, SimpleOrExpr(resolve_simple_value(symbols, operand_str), None))

EncodeImmediate(symbols, opcode, operand_str) ==
  ImmediateByte(opcode, resolve_value(symbols, operand_str))

ConditionBytes(opcode, cond, addr) ==
  IF ~cond.ok THEN Raised(cond.err)
  ELSE IF ~addr.ok THEN Raised(addr.err)
  ELSE Encoded(<<BitOr(opcode, Mask(cond.v, 4)), Mask(addr.v, 8)>>)

\* EncodeConditionParts taking any operands after the second as well
EncodeConditionParts_AtLeastTwo(symbols, opcode, parts) ==
  IF Len(parts) < 2 THEN Raised("JcnOperands")
  ELSE ConditionBytes(opcode, resolve_value(symbols, parts[1]),
                      resolve_value(symbols, parts[2]))

EncodeConditionParts(symbols, opcode, parts) ==
  IF Len(parts) # 2 THEN Raised("JcnOperands")
  ELSE ConditionBytes(opcode, resolve_value(symbols, parts[1]),
                      resolve_value(symbols, parts[2]))

EncodeCondition(symbols, opcode, operand_str) ==
  EncodeConditionParts(symbols, opcode, TrimmedParts(operand_str))

\* AddressBytes without the high nibble of the address in the first byte
AddressBytes_LowOnly(opcode, addr) ==
  IF ~addr.ok THEN Raised(addr.err)
  ELSE Encoded(<<opcode, Mask(addr.v, 8)>>)

AddressBytes(opcode, addr) ==
  IF ~addr.ok THEN Raised(addr.err)
  ELSE Encoded(<<BitOr(opcode, Mask(Shr(addr.v, 8), 4)), Mask(addr.v, 8)>>)

EncodeAddress(symbols, opcode, operand_str) ==
  AddressBytes(opcode, resolve_value(symbols, operand_str))

assemble_instruction(symbols, mnemonic, inst, operand_str) ==
  IF inst.op_type = "NONE" THEN Encoded(<<inst.opcode>>)
  ELSE IF inst.op_type = "REGISTER" THEN
    IF mnemonic = M_ISZ THEN EncodeISZ(symbols, inst.opcode, operand_str)
    ELSE EncodeRegister(symbols, inst.opcode, operand_str)
  ELSE IF inst.op_type = "REGISTER_PAIR" THEN
    IF mnemonic = M_FIM THEN EncodeFIM(symbols, inst.opcode, operand_str)
    ELSE EncodePair(symbols, inst.opcode, operand_str)
  ELSE IF inst.op_type = "IMMEDIATE" THEN EncodeImmediate(symbols, inst.opcode, operand_str)
  ELSE IF inst.op_type = "CONDITION" THEN EncodeCondition(symbols, inst.opcode, operand_str)
  ELSE IF inst.op_type = "ADDRESS" THEN EncodeAddress(symbols, inst.opcode, operand_str)
  ELSE Encoded(<<>>)

(***************************************************************************)
(* Pass 2, one source line.  s is the session (symbols, current_address,  *)
(* binary); the result carries the new cursor and buffer, the listing     *)
(* record appended, the bytes emitted for the line and the ValueError     *)
(* raised (or "").                                                         *)
(***************************************************************************)
ListingRecord(number, addr, bytes, text) ==
  [line_number |-> number, address |-> addr, bytes |-> bytes, text |-> text]

NoAddress(number, text) == ListingRecord(number, None, <<>>, text)

P2Result(s, err, bytes_out, entry) ==
  [symbols |-> s.symbols, current_address |-> s.current_address, binary |-> s.binary,
   err |-> err, bytes_out |-> bytes_out, entry |-> entry]

Zeros(n) == [i \in 1..n |-> 0]

\* the operands of a data directive resolved in order; the first that does
\* not resolve raises
DataValues(symbols, parts) ==
  [i \in 1..Len(parts) |-> resolve_value(symbols, trim(parts[i]))]

FirstError(vals) ==
  IF \E i \in 1..Len(vals) : ~vals[i].ok
  THEN vals[CHOOSE i \in 1..Len(vals) :
              ~vals[i].ok /\ \A j \in 1..(i - 1) : vals[j].ok].err
  ELSE ""

\* DB: one byte per operand
ByteValues(vals) ==
  IF FirstError(vals) # "" THEN Raised(FirstError(vals))
  ELSE Encoded([i \in 1..Len(vals) |-> Mask(vals[i].v, 8)])

DataBytes(symbols, parts) == ByteValues(DataValues(symbols, parts))

\* WordValues with the high byte first
WordValues_HighFirst(vals) ==
  IF FirstError(vals) # "" THEN Raised(FirstError(vals))
  ELSE Encoded([i \in 1..(2 * Len(vals)) |->
                  IF i % 2 = 1 THEN Mask(Shr(vals[(i + 1) \div 2].v, 8), 8)
                  ELSE Mask(vals[i \div 2].v, 8)])

\* DW: low byte then high byte of each operand
WordValues(vals) ==
  IF FirstError(vals) # "" THEN Raised(FirstError(vals))
  ELSE Encoded([i \in 1..(2 * Len(vals)) |->
                  IF i % 2 = 1 THEN Mask(vals[(i + 1) \div 2].v, 8)
                  ELSE Mask(Shr(vals[i \div 2].v, 8), 8)])

DataWords(symbols, parts) == WordValues(DataValues(symbols, parts))

\* the first four bytes, as the listing shows them
FirstFour(bytes) == SubSeq(bytes, 1, IF Len(bytes) < 4 THEN Len(bytes) ELSE 4)

\* PassTwoOrg setting the cursor without padding the buffer
PassTwoOrg_NoPad(s, number, raw_line, val) ==
  IF ~val.ok THEN P2Result(s, val.err, <<>>, NoAddress(number, raw_line))
  ELSE P2Result([s EXCEPT !.current_address = val.v],
                "", <<>>, ListingRecord(number, Some(s.current_address), <<>>, raw_line))

\* ORG expr: the cursor is set and the buffer zero-padded up to it
PassTwoOrg(s, number, raw_line, val) ==
  IF ~val.ok THEN P2Result(s, val.err, <<>>, NoAddress(number, raw_line))
  ELSE P2Result([s EXCEPT !.current_address = val.v,
                          !.binary = IF Len(s.binary) < val.v
                                     THEN s.binary \o Zeros(val.v - Len(s.binary))
                                     ELSE s.binary],
                "", <<>>, ListingRecord(number, Some(s.current_address), <<>>, raw_line))

\* the bytes of a data directive or instruction line
LineBytes(symbols, mnemonic, operand_str) ==
  IF mnemonic \in DataByteNames THEN DataBytes(symbols, SplitAll(operand_str, ","))
  ELSE IF mnemonic \in DataWordNames THEN DataWords(symbols, SplitAll(operand_str, ","))
  ELSE IF mnemonic \notin Mnemonics THEN Raised("UnknownInstruction")
  ELSE assemble_instruction(symbols, mnemonic, InstOf(mnemonic), operand_str)

\* PassTwoEmit advancing the cursor without appending the bytes to the buffer
PassTwoEmit_NoAppend(s, number, raw_line, out) ==
  IF out.err # "" THEN P2Result(s, out.err, <<>>, NoAddress(number, raw_line))
  ELSE P2Result([s EXCEPT !.current_address = s.current_address + Len(out.bytes)],
                "", out.bytes,
                ListingRecord(number, Some(s.current_address), FirstFour(out.bytes),
                              raw_line))

\* the bytes are appended to the buffer and the listing
PassTwoEmit(s, number, raw_line, out) ==
  IF out.err # "" THEN P2Result(s, out.err, <<>>, NoAddress(number, raw_line))
  ELSE P2Result([s EXCEPT !.binary = s.binary \o out.bytes,
                          !.current_address = s.current_address + Len(out.bytes)],
                "", out.bytes,
                ListingRecord(number, Some(s.current_address), FirstFour(out.bytes),
                              raw_line))

PassTwoParsed(s, number, raw_line, st, inline) ==
  IF st.mnemonic = M_ORG
    THEN PassTwoOrg(s, number, raw_line, resolve_value(s.symbols, st.operand_str))
  ELSE IF st.mnemonic = M_EQU THEN P2Result(s, "", <<>>, NoAddress(number, raw_line))
  ELSE IF inline THEN P2Result(s, "", <<>>, NoAddress(number, raw_line))
  ELSE PassTwoEmit(s, number, raw_line, LineBytes(s.symbols, st.mnemonic, st.operand_str))

PassTwoStatement(s, line, number, raw_line) ==
  PassTwoParsed(s, number, raw_line, Statement(line), EquInline(line).match)

PassTwoStripped(s, stmt, number, raw_line) ==
  IF stmt = <<>> THEN P2Result(s, "", <<>>, NoAddress(number, raw_line))
  ELSE PassTwoStatement(s, stmt, number, raw_line)

\* PassTwoLine binding the label of the line to the cursor again
PassTwoLine_Rebinds(s, raw_line, number) ==
  PassTwoStripped([s EXCEPT !.symbols = AfterLabel(
                     [symbols |-> s.symbols, current_address |-> s.current_address,
                      last_label |-> NoneStr], remove_comment(raw_line)).symbols],
                  StatementText(remove_comment(raw_line)), number, raw_line)

\* a line of pass_two: the label, already processed, is skipped
PassTwoLine(s, raw_line, number) ==
  PassTwoStripped(s, StatementText(remove_comment(raw_line)), number, raw_line)

(***************************************************************************)
(* Source lines the programs are built from.                               *)
(***************************************************************************)
\* NOP
Ln_NOP == <<"N","O","P">>
\* L: NOP
Ln_L_NOP == <<"L",":"," ","N","O","P">>
\* JUN L
Ln_JUN_L == <<"J","U","N"," ","L">>
\* ORG 0x010
Ln_ORG_010 == <<"O","R","G"," ","0","x","0","1","0">>
\* DB 1,L
Ln_DB == <<"D","B"," ","1",",","L">>
\* DW 0x1234
Ln_DW == <<"D","W"," ","0","x","1","2","3","4">>
\* FIM R0R1, 0x1, 0x2
Ln_FIM == <<"F","I","M"," ","R","0","R","1",","," ","0","x","1",","," ","0","x","2">>
\* R1: NOP
Ln_R1_NOP == <<"R","1",":"," ","N","O","P">>
\* L EQU 3
Ln_L_EQU == <<"L"," ","E","Q","U"," ","3">>
\*  ; c
Ln_Comment == <<" ",";"," ","c">>
\* ORG
Ln_ORG_None == <<"O","R","G">>
\* JCN 1
Ln_JCN_1 == <<"J","C","N"," ","1">>
\* INC R16
Ln_INC_R16 == <<"I","N","C"," ","R","1","6">>
\* EQU 3
Ln_EQU == <<"E","Q","U"," ","3">>
\* FOO
Ln_FOO == <<"F","O","O">>
\* L:
Ln_L == <<"L",":">>
\* ORG 0x123
Ln_ORG_123 == <<"O","R","G"," ","0","x","1","2","3">>
\* l EQU 7
Ln_l_EQU == <<"l"," ","E","Q","U"," ","7">>
\* R1 EQU 9
Ln_R1_EQU == <<"R","1"," ","E","Q","U"," ","9">>
\* JUN R1
Ln_JUN_R1 == <<"J","U","N"," ","R","1">>
\* ORG L
Ln_ORG_L == <<"O","R","G"," ","L">>

\* AH EQU 5
Ln_AH_EQU == <<"A","H"," ","E","Q","U"," ","5">>
\* ORG L+2
Ln_ORG_Lp2 == <<"O","R","G"," ","L","+","2">>
\* DW L-U
Ln_DW_LmU == <<"D","W"," ","L","-","U">>
\* JUN +
Ln_JUN_Plus == <<"J","U","N"," ","+">>
\* JUN
Ln_JUN_None == <<"J","U","N">>

\* "JUN X"
Ln_JUN_X == <<"J","U","N"," ","X">>

\* "X: BAR 1, 2"
Ln_X_BAR == <<"X",":"," ","B","A","R"," ","1",","," ","2">>

\* "FIM R2R3, 0x1FA"
Ln_FIM_Byte == <<"F","I","M"," ","R","2","R","3",","," ","0","x","1","F","A">>

\* "FIM R14R15, 0x1F, 0x2E"
Ln_FIM_Wide == <<"F","I","M"," ","R","1","4","R","1","5",","," ","0","x","1","F",","," ","0","x","2","E">>

\* "FIM R4, -1"
Ln_FIM_Even == <<"F","I","M"," ","R","4",","," ","-","1">>

\* "FIM R16R17, 3"
Ln_FIM_High == <<"F","I","M"," ","R","1","6","R","1","7",","," ","3">>

\* "FIM R1, 2"
Ln_FIM_Odd == <<"F","I","M"," ","R","1",","," ","2">>

\* "FIN R18R19"
Ln_FIN_High == <<"F","I","N"," ","R","1","8","R","1","9">>

\* "LDM 0x1F"
Ln_LDM_Wide == <<"L","D","M"," ","0","x","1","F">>

\* "JCN 0x1A, 0x1FA"
Ln_JCN_Wide == <<"J","C","N"," ","0","x","1","A",","," ","0","x","1","F","A">>

\* "DB 0x1FA, -1"
Ln_DB_Wide == <<"D","B"," ","0","x","1","F","A",","," ","-","1">>

\* "DW 0x12345"
Ln_DW_Wide == <<"D","W"," ","0","x","1","2","3","4","5">>

\* "JUN 0x1FA5"
Ln_JUN_Wide == <<"J","U","N"," ","0","x","1","F","A","5">>

\* "ISZ R3, 0x1FA"
Ln_ISZ_Wide == <<"I","S","Z"," ","R","3",","," ","0","x","1","F","A">>

\* "ISZ R1"
Ln_ISZ_1 == <<"I","S","Z"," ","R","1">>

\* "ISZ R1, 5"
Ln_ISZ_2 == <<"I","S","Z"," ","R","1",","," ","5">>

\* "ISZ R1, 5, 6"
Ln_ISZ_3 == <<"I","S","Z"," ","R","1",","," ","5",","," ","6">>

\* "FIM R0R1"
Ln_FIM_1 == <<"F","I","M"," ","R","0","R","1">>

\* "FIM R0R1, 1, 2, 3"
Ln_FIM_4 == <<"F","I","M"," ","R","0","R","1",","," ","1",","," ","2",","," ","3">>

\* "JCN 1, 2"
Ln_JCN_2 == <<"J","C","N"," ","1",","," ","2">>

\* "JCN 1, 2, 3"
Ln_JCN_3 == <<"J","C","N"," ","1",","," ","2",","," ","3">>

\* "CLB"
Ln_CLB == <<"C","L","B">>

\* "INC R3"
Ln_INC_R3 == <<"I","N","C"," ","R","3">>

\* "XCH R15"
Ln_XCH_R15 == <<"X","C","H"," ","R","1","5">>

\* "SRC R4R5"
Ln_SRC_R4R5 == <<"S","R","C"," ","R","4","R","5">>

\* "FIN R6"
Ln_FIN_R6 == <<"F","I","N"," ","R","6">>

\* "BBL 3"
Ln_BBL_3 == <<"B","B","L"," ","3">>

\* "JUN 0x123"
Ln_JUN_123 == <<"J","U","N"," ","0","x","1","2","3">>

\* "JMS 0xABC"
Ln_JMS_ABC == <<"J","M","S"," ","0","x","A","B","C">>

\* "DB 1, 0x1FA, -1"
Ln_DB_3 == <<"D","B"," ","1",","," ","0","x","1","F","A",","," ","-","1">>

\* "BYTE 7"
Ln_BYTE_7 == <<"B","Y","T","E"," ","7">>

\* "DW 0x1234, 5"
Ln_DW_2 == <<"D","W"," ","0","x","1","2","3","4",","," ","5">>

\* "WORD 0x12345"
Ln_WORD_Wide == <<"W","O","R","D"," ","0","x","1","2","3","4","5">>

\* "DW 2, U"
Ln_DW_U == <<"D","W"," ","2",","," ","U">>

\* "DB"
Ln_DB_None == <<"D","B">>

\* "SRC R3"
Ln_SRC_R3 == <<"S","R","C"," ","R","3">>

\* "SRC R1R2"
Ln_SRC_R1R2 == <<"S","R","C"," ","R","1","R","2">>

\* "JIN R2R4"
Ln_JIN_R2R4 == <<"J","I","N"," ","R","2","R","4">>

\* "R1R2 EQU 4"
Ln_R1R2_EQU == <<"R","1","R","2"," ","E","Q","U"," ","4">>

\* "R3 EQU 4"
Ln_R3_EQU == <<"R","3"," ","E","Q","U"," ","4">>

\* "DW AH"
Ln_DW_AH == <<"D","W"," ","A","H">>

\* "DB 0b101, $1F, 1Fh"
Ln_DB_Bases == <<"D","B"," ","0","b","1","0","1",","," ","$","1","F",","," ","1","F","h">>

\* "INC 3"
Ln_INC_3 == <<"I","N","C"," ","3">>

\* "INC L"
Ln_INC_L == <<"I","N","C"," ","L">>

\* "SRC R2R3"
Ln_SRC_R2R3 == <<"S","R","C"," ","R","2","R","3">>

\* "LDM L+1"
Ln_LDM_Lp1 == <<"L","D","M"," ","L","+","1">>

\* "LDM R1"
Ln_LDM_R1 == <<"L","D","M"," ","R","1">>

PoolMain == {Ln_NOP, Ln_L_NOP, Ln_JUN_L, Ln_ORG_010, Ln_DB, Ln_DW, Ln_FIM,
             Ln_L_EQU, Ln_Comment}
PoolErr == {Ln_NOP, Ln_L, Ln_JUN_L, Ln_ORG_None, Ln_JCN_1, Ln_INC_R16, Ln_EQU, Ln_FOO}
PoolSym == {Ln_L_NOP, Ln_L, Ln_JUN_L, Ln_ORG_123, Ln_l_EQU, Ln_EQU, Ln_R1_EQU,
            Ln_JUN_R1, Ln_ORG_L, Ln_R1_NOP}
PoolExpr == {Ln_ORG_123, Ln_L_NOP, Ln_AH_EQU, Ln_R1_EQU, Ln_ORG_Lp2, Ln_DW_LmU,
             Ln_JUN_Plus, Ln_JUN_None}

PoolWarn == {Ln_NOP, Ln_FOO, Ln_X_BAR, Ln_ORG_010, Ln_JUN_X}

PoolFim == {Ln_FIM, Ln_FIM_Byte, Ln_FIM_Wide, Ln_FIM_Even, Ln_FIM_High, Ln_FIM_Odd,
            Ln_L_NOP}

PoolMask == {Ln_FIN_High, Ln_LDM_Wide, Ln_JCN_Wide, Ln_DB_Wide, Ln_DW_Wide, Ln_JUN_Wide,
             Ln_ISZ_Wide, Ln_FIM_Wide}

PoolCount == {Ln_ISZ_1, Ln_ISZ_2, Ln_ISZ_3, Ln_FIM_1, Ln_FIM, Ln_FIM_4, Ln_JCN_1, Ln_JCN_2,
              Ln_JCN_3}

PoolOne == {Ln_NOP, Ln_CLB, Ln_INC_R3, Ln_XCH_R15, Ln_SRC_R4R5, Ln_FIN_R6, Ln_BBL_3,
            Ln_LDM_Wide}

PoolJump == {Ln_NOP, Ln_JUN_123, Ln_JMS_ABC, Ln_JUN_Wide, Ln_JCN_2, Ln_JCN_Wide, Ln_ISZ_2,
             Ln_ISZ_Wide}

PoolData == {Ln_DB_3, Ln_BYTE_7, Ln_DW_2, Ln_WORD_Wide, Ln_DB, Ln_L_NOP, Ln_DW_U,
             Ln_DB_None}

PoolPair == {Ln_SRC_R4R5, Ln_FIN_R6, Ln_FIN_High, Ln_SRC_R3, Ln_SRC_R1R2, Ln_JIN_R2R4,
             Ln_FIM_Odd, Ln_R1R2_EQU, Ln_R3_EQU}

PoolFrame == {Ln_L, Ln_L_NOP, Ln_EQU, Ln_l_EQU, Ln_ORG_L, Ln_DB, Ln_JUN_L, Ln_DW}

PoolSimple == {Ln_AH_EQU, Ln_R1_EQU, Ln_L_NOP, Ln_DW_AH, Ln_JUN_R1, Ln_JUN_L, Ln_DB_Bases,
               Ln_DW_U}

PoolEntry == {Ln_L_NOP, Ln_ORG_123, Ln_INC_3, Ln_INC_L, Ln_SRC_R2R3, Ln_LDM_Lp1, Ln_LDM_R1,
              Ln_JUN_L}

\* "SRC R0R1"
Ln_SRC_R0R1 == <<"S","R","C"," ","R","0","R","1">>

\* "JIN R0R1"
Ln_JIN_R0R1 == <<"J","I","N"," ","R","0","R","1">>

\* "FIN R2R3"
Ln_FIN_R2R3 == <<"F","I","N"," ","R","2","R","3">>

PoolIndex == {Ln_SRC_R0R1, Ln_SRC_R2R3, Ln_JIN_R0R1, Ln_FIN_R2R3, Ln_FIM_Byte, Ln_FIN_High,
              Ln_FIM_High, Ln_INC_R3, Ln_BBL_3}

PoolReuse == {Ln_L_NOP, Ln_JUN_L, Ln_ORG_010}

\* longest program, in lines
MaxLines == 3

Programs(lineset) == UNION {[1..n -> lineset] : n \in 0..MaxLines}

(***************************************************************************)
(* The state of one Assembler session running assemble_file.               *)
(***************************************************************************)
VARIABLES
  pool,             \* the source lines input files are made of
  verbose,          \* Assembler.verbose
  phase,            \* position in assemble_file
  lines,            \* the lines read from the input file
  listing_file,     \* whether a listing file was requested
  idx,              \* lines the running pass has processed
  symbols, binary, listing, current_address, org_address, line_number, last_label,
  result,           \* what assemble_file returned: "none" until it returns
  error,            \* the error raised, "" when none
  warnings,         \* diagnostics that did not stop the run
  bin_file,         \* the binary output file, None while it does not exist
  lst_file,         \* the listing output file, None while it does not exist
  calls,            \* pass_one, pass_two, write_binary, write_listing as invoked
  p1,               \* per line of Pass 1: cursor before the line and advance
  p2,               \* per line of Pass 2: cursor before the line and bytes emitted
  bindLog           \* every symbol definition made, in order

session == <<symbols, binary, listing, current_address, org_address, line_number,
             last_label>>
io == <<result, error, warnings, bin_file, lst_file>>
hist == <<calls, p1, p2, bindLog>>
vars == <<pool, verbose, phase, lines, listing_file, idx, session, io, hist>>

\* Assembler.__init__ and the start of assemble_file
InitVerbose(lineset, v) ==
  /\ pool = lineset
  /\ verbose = v
  /\ phase = "Init"
  /\ lines = <<>>
  /\ listing_file = FALSE
  /\ idx = 0
  /\ symbols = NoSymbols
  /\ binary = <<>>
  /\ listing = <<>>
  /\ current_address = 0
  /\ org_address = 0
  /\ line_number = 0
  /\ last_label = NoneStr
  /\ result = "none"
  /\ error = ""
  /\ warnings = <<>>
  /\ bin_file = None
  /\ lst_file = None
  /\ calls = <<>>
  /\ p1 = <<>>
  /\ p2 = <<>>
  /\ bindLog = <<>>

\* Assembler(): verbose defaults to True
InitWith(lineset) == InitVerbose(lineset, TRUE)

Init == InitWith(PoolMain)
InitErr == InitWith(PoolErr)
InitSym == InitWith(PoolSym)
InitExpr == InitWith(PoolExpr)
\* main(): Assembler(verbose), quiet when -q is given without -v
InitWarn == \E v \in BOOLEAN : InitVerbose(PoolWarn, v)

\* the input file cannot be opened: assemble_file returns False
ReadFail ==
  /\ phase = "Init"
  /\ phase' = "Failed"
  /\ result' = "False"
  /\ error' = "IOError"
  /\ UNCHANGED <<pool, verbose, lines, listing_file, idx, session, warnings, bin_file, lst_file, hist>>

\* the input file is read and pass_one is entered (its three resets)
ReadSource ==
  /\ phase = "Init"
  /\ \E prog \in Programs(pool), lf \in BOOLEAN :
       /\ lines' = prog
       /\ listing_file' = lf
  /\ phase' = "Pass1"
  /\ idx' = 0
  /\ line_number' = 0
  /\ current_address' = 0
  /\ last_label' = NoneStr
  /\ calls' = Append(calls, "pass_one")
  /\ UNCHANGED <<pool, verbose, symbols, binary, listing, org_address, io, p1, p2, bindLog>>

\* the session as pass_one reads it
PassOneSession ==
  [symbols |-> symbols, current_address |-> current_address,
   org_address |-> org_address, last_label |-> last_label]

\* PassOneApply with the ValueError swallowed: the loop goes on
PassOneApply_ErrorIgnored(r) ==
  /\ idx' = idx + 1
  /\ line_number' = line_number + 1
  /\ symbols' = r.symbols
  /\ current_address' = r.current_address
  /\ org_address' = r.org_address
  /\ last_label' = r.last_label
  /\ bindLog' = bindLog \o r.binds
  /\ p1' = Append(p1, [addr |-> current_address, advance |-> r.advance, err |-> r.err])
  /\ warnings' = warnings
  /\ UNCHANGED <<phase, result, error>>

\* the effect r of a line of Pass 1 on the session
PassOneApply(r) ==
  /\ idx' = idx + 1
  /\ line_number' = line_number + 1
  /\ symbols' = r.symbols
  /\ current_address' = r.current_address
  /\ org_address' = r.org_address
  /\ last_label' = r.last_label
  /\ bindLog' = bindLog \o r.binds
  /\ p1' = Append(p1, [addr |-> current_address, advance |-> r.advance, err |-> r.err])
  /\ warnings' = IF r.warned /\ verbose
                 THEN Append(warnings, [line |-> line_number + 1,
                                        what |-> "UnknownMnemonic"])
                 ELSE warnings
  /\ IF r.err # ""
     THEN /\ phase' = "Failed"
          /\ result' = "False"
          /\ error' = r.err
     ELSE UNCHANGED <<phase, result, error>>

\* one iteration of pass_one's loop; a ValueError ends assemble_file
PassOneStep ==
  /\ phase = "Pass1"
  /\ idx < Len(lines)
  /\ PassOneApply(PassOneLine(PassOneSession, lines[idx + 1]))
  /\ UNCHANGED <<pool, verbose, lines, listing_file, binary, listing, bin_file, lst_file, calls, p2>>

\* pass_one returns True and pass_two is entered (its four resets)
PassOneReturn ==
  /\ phase = "Pass1"
  /\ idx = Len(lines)
  /\ phase' = "Pass2"
  /\ idx' = 0
  /\ line_number' = 0
  /\ current_address' = org_address
  /\ binary' = <<>>
  /\ listing' = <<>>
  /\ calls' = Append(calls, "pass_two")
  /\ UNCHANGED <<pool, verbose, lines, listing_file, symbols, org_address, last_label, io,
                 p1, p2, bindLog>>

\* the session as pass_two reads it
PassTwoSession ==
  [symbols |-> symbols, current_address |-> current_address, binary |-> binary]

\* PassTwoApply with the ValueError recorded but the loop going on
PassTwoApply_ErrorIgnored(r) ==
  /\ idx' = idx + 1
  /\ line_number' = line_number + 1
  /\ p2' = Append(p2, [addr |-> current_address, bytes |-> r.bytes_out, err |-> r.err])
  /\ symbols' = r.symbols
  /\ error' = IF r.err # "" THEN r.err ELSE error
  /\ current_address' = r.current_address
  /\ binary' = r.binary
  /\ listing' = Append(listing, r.entry)
  /\ UNCHANGED <<phase, result>>

\* the effect r of a line of Pass 2 on the session
PassTwoApply(r) ==
  /\ idx' = idx + 1
  /\ line_number' = line_number + 1
  /\ p2' = Append(p2, [addr |-> current_address, bytes |-> r.bytes_out, err |-> r.err])
  /\ symbols' = r.symbols
  /\ IF r.err # ""
     THEN /\ phase' = "Failed"
          /\ result' = "False"
          /\ error' = r.err
          /\ UNCHANGED <<current_address, binary, listing>>
     ELSE /\ current_address' = r.current_address
          /\ binary' = r.binary
          /\ listing' = Append(listing, r.entry)
          /\ UNCHANGED <<phase, result, error>>

\* one iteration of pass_two's loop; a ValueError ends assemble_file
PassTwoStep ==
  /\ phase = "Pass2"
  /\ idx < Len(lines)
  /\ PassTwoApply(PassTwoLine(PassTwoSession, lines[idx + 1], line_number + 1))
  /\ UNCHANGED <<pool, verbose, lines, listing_file, org_address, last_label,
                 warnings, bin_file, lst_file, calls, p1, bindLog>>

\* pass_two returns True; assemble_file goes on to write the outputs
PassTwoReturn ==
  /\ phase = "Pass2"
  /\ idx = Len(lines)
  /\ phase' = "Write"
  /\ UNCHANGED <<pool, verbose, lines, listing_file, idx, session, io, hist>>

\* what follows write_binary in assemble_file
AfterBinary == IF listing_file THEN "WriteListing" ELSE "Done"

\* write_binary succeeds
WriteBinaryOk ==
  /\ phase = "Write"
  /\ calls' = Append(calls, "write_binary")
  /\ bin_file' = Some(binary)
  /\ phase' = AfterBinary
  /\ result' = IF AfterBinary = "Done" THEN "True" ELSE result
  /\ UNCHANGED <<pool, verbose, lines, listing_file, idx, session, error, warnings, lst_file,
                 p1, p2, bindLog>>

\* what a write that fails may leave of s in the file: nothing, the first
\* half or, when the error comes last, all of it
Written(s) == {SubSeq(s, 1, k) : k \in {0, Len(s) \div 2, Len(s)}}

\* WriteBinaryFail treating the IOError as write_listing does: a warning
WriteBinaryFail_Swallowed ==
  /\ phase = "Write"
  /\ calls' = Append(calls, "write_binary")
  /\ warnings' = Append(warnings, [line |-> 0, what |-> "CannotWriteBinary"])
  /\ phase' = AfterBinary
  /\ result' = IF AfterBinary = "Done" THEN "True" ELSE result
  /\ UNCHANGED <<pool, verbose, lines, listing_file, idx, session, error, bin_file, lst_file,
                 p1, p2, bindLog>>

\* write_binary meets an IOError and raises ValueError: assemble_file returns False.
\* The error comes from open (no file) or from the write (a file holding a part
\* of the buffer).
WriteBinaryFail ==
  /\ phase = "Write"
  /\ calls' = Append(calls, "write_binary")
  /\ bin_file' \in {None} \cup {Some(part) : part \in Written(binary)}
  /\ phase' = "Failed"
  /\ result' = "False"
  /\ error' = "CannotWrite"
  /\ UNCHANGED <<pool, verbose, lines, listing_file, idx, session, warnings, lst_file,
                 p1, p2, bindLog>>

\* the listing file: the records written and, when the write came to its end,
\* the trailer with the totals and the symbol table
ListingFile(records, complete) ==
  [records |-> records, complete |-> complete,
   total_bytes |-> IF complete THEN Len(binary) ELSE 0,
   total_lines |-> IF complete THEN Len(listing) ELSE 0,
   symbols |-> IF complete THEN symbols ELSE NoSymbols]

\* write_listing succeeds
WriteListingOk ==
  /\ phase = "WriteListing"
  /\ calls' = Append(calls, "write_listing")
  /\ lst_file' = Some(ListingFile(listing, TRUE))
  /\ phase' = "Done"
  /\ result' = "True"
  /\ UNCHANGED <<pool, verbose, lines, listing_file, idx, session, error, warnings, bin_file,
                 p1, p2, bindLog>>

\* write_listing meets an IOError: it prints a warning and returns.  The error
\* comes from open (no file) or from a write (a file holding some of the records)
WriteListingFail ==
  /\ phase = "WriteListing"
  /\ calls' = Append(calls, "write_listing")
  /\ lst_file' \in {None} \cup {Some(ListingFile(part, FALSE)) : part \in Written(listing)}
  /\ warnings' = Append(warnings, [line |-> 0, what |-> "CannotWriteListing"])
  /\ phase' = "Done"
  /\ result' = "True"
  /\ UNCHANGED <<pool, verbose, lines, listing_file, idx, session, error, bin_file,
                 p1, p2, bindLog>>

\* assemble_file is called a second time on the same Assembler: nothing is
\* reset before pass_one; the outcome of the earlier call (return value,
\* files, messages) is left behind
AssembleAgain ==
  /\ phase \in {"Done", "Failed"}
  /\ \A k \in 1..Len(calls) : calls[k] # "assemble_file"
  /\ phase' = "Init"
  /\ calls' = <<"assemble_file">>
  /\ lines' = <<>>
  /\ listing_file' = FALSE
  /\ idx' = 0
  /\ result' = "none"
  /\ error' = ""
  /\ warnings' = <<>>
  /\ bin_file' = None
  /\ lst_file' = None
  /\ p1' = <<>>
  /\ p2' = <<>>
  /\ bindLog' = <<>>
  /\ UNCHANGED <<pool, verbose, session>>

Next ==
  \/ ReadFail
  \/ ReadSource
  \/ PassOneStep
  \/ PassOneReturn
  \/ PassTwoStep
  \/ PassTwoReturn
  \/ WriteBinaryOk
  \/ WriteBinaryFail
  \/ WriteListingOk
  \/ WriteListingFail

Spec == Init /\ [][Next]_vars
SpecErr == InitErr /\ [][Next]_vars
SpecSym == InitSym /\ [][Next]_vars
SpecExpr == InitExpr /\ [][Next]_vars
SpecWarn == InitWarn /\ [][Next]_vars
SpecFim == InitWith(PoolFim) /\ [][Next]_vars
SpecMask == InitWith(PoolMask) /\ [][Next]_vars
SpecCount == InitWith(PoolCount) /\ [][Next]_vars
SpecOne == InitWith(PoolOne) /\ [][Next]_vars
SpecJump == InitWith(PoolJump) /\ [][Next]_vars
SpecData == InitWith(PoolData) /\ [][Next]_vars
SpecPair == InitWith(PoolPair) /\ [][Next]_vars
SpecFrame == InitWith(PoolFrame) /\ [][Next]_vars
SpecSimple == InitWith(PoolSimple) /\ [][Next]_vars
SpecEntry == InitWith(PoolEntry) /\ [][Next]_vars
SpecIndex == InitWith(PoolIndex) /\ [][Next]_vars

\* a session that may be used for two files in turn
NextReuse == Next \/ AssembleAgain
SpecReuse == InitWith(PoolReuse) /\ [][NextReuse]_vars

(***************************************************************************)
(* Vocabulary of the properties.                                           *)
(***************************************************************************)
\* the statement of a raw source line: mnemonic and operand text
LineStatement(raw_line) == Statement(StatementText(remove_comment(raw_line)))

HasStatement(raw_line) == StatementText(remove_comment(raw_line)) # <<>>

\* the line declares a label
HasLabel(raw_line) == Find(remove_comment(raw_line), ":") # 0

\* the line is NAME EQU expr
IsInlineEqu(raw_line) ==
  HasStatement(raw_line) /\ EquInline(StatementText(remove_comment(raw_line))).match

\* the line is a standalone EQU expr
IsStandaloneEqu(raw_line) ==
  /\ HasStatement(raw_line)
  /\ ~IsInlineEqu(raw_line)
  /\ LineStatement(raw_line).mnemonic = M_EQU

M_JUN == <<"J","U","N">>
IsJun(raw_line) ==
  /\ HasStatement(raw_line)
  /\ ~IsInlineEqu(raw_line)
  /\ LineStatement(raw_line).mnemonic = M_JUN

\* the name a JUN line refers to
JunTarget(raw_line) == normalize_symbol(LineStatement(raw_line).operand_str)

\* the lines of the pools by what Pass 1 takes them for
AllLines == PoolMain \cup PoolErr \cup PoolSym \cup PoolExpr \cup PoolWarn \cup PoolFim \cup PoolMask
              \cup PoolCount \cup PoolOne \cup PoolJump
              \cup PoolData \cup PoolPair
              \cup PoolFrame \cup PoolSimple
              \cup PoolEntry \cup PoolReuse \cup PoolIndex
LabelLines == {l \in AllLines : HasLabel(l)}
InlineEquLines == {l \in AllLines : IsInlineEqu(l)}
BareEquLines == {l \in AllLines : IsStandaloneEqu(l) /\ ~HasLabel(l)}
JunLines == {l \in AllLines : IsJun(l)}
JunTargetOf == [l \in JunLines |-> JunTarget(l)]

\* the two bytes of JUN to address a
JunBytes(a) == <<64 + ((a \div 256) % 16), a % 256>>

\* positions in bindLog of the definitions of name n
Bindings(n) == {k \in 1..Len(bindLog) : bindLog[k].name = n}
LabelBindings(n) == {k \in Bindings(n) : bindLog[k].kind = "label"}
DeclaredOnce(n) == Cardinality(LabelBindings(n)) = 1
EquBound(n) == \E k \in Bindings(n) : bindLog[k].kind # "label"
LabelAddress(n) == bindLog[CHOOSE k \in LabelBindings(n) : TRUE].value
LastBinding(n) == bindLog[CHOOSE k \in Bindings(n) : \A j \in Bindings(n) : j <= k]

\* the name reads as a number or as a register, which resolve before symbols
IsLiteralName(n) == parse_number(n).ok \/ parse_register(n).ok

\* the names the lines of the pools declare, bind or jump to
PoolNames ==
  {JunTargetOf[l] : l \in JunLines}
    \cup {LabelOf(remove_comment(l)) : l \in LabelLines}
    \cup {normalize_symbol(EquInline(StatementText(remove_comment(l))).name) :
            l \in InlineEquLines}
LiteralNames == {n \in PoolNames : IsLiteralName(n)}

LowerOf(c) == IF c \in UpperLetters
              THEN CHOOSE d \in LowerLetters : UpperOf[d] = c ELSE c
\* a spelling of name n in lower case with white space around it
Respelled(n) == <<" ">> \o [i \in 1..Len(n) |-> LowerOf(n[i])] \o <<"\t">>

PassErrors == {"MissingValue", "UnknownSymbol", "EquWithoutLabel", "UnknownInstruction",
               "IszOperands", "InvalidIszRegister", "InvalidRegister", "FimOperands",
               "InvalidFimPair", "InvalidRegisterPair", "JcnOperands"}

WriteCalled == \E k \in 1..Len(calls) : calls[k] \in {"write_binary", "write_listing"}

ListingCalled == \E k \in 1..Len(calls) : calls[k] = "write_listing"

ListingWarned == \E k \in 1..Len(warnings) : warnings[k].what = "CannotWriteListing"

\* the binary file holds the whole output buffer
BinaryWritten == bin_file = Some(binary)

\* the listing file holds every record, the totals and the symbol table
ListingWritten == lst_file = Some(ListingFile(listing, TRUE))

(***************************************************************************)
(* C1.  For every line that Pass 2 processes without error, the number of *)
(* bytes by which Pass 1 advanced the address cursor for the line equals   *)
(* the number of bytes Pass 2 emits for it.                                *)
(***************************************************************************)
\* operand texts of every shape the encoder accepts
C1_Operands ==
  {<<>>, <<"R","1">>, <<"R","0","R","1">>, <<"5">>, <<"R","1",","," ","5">>,
   <<"1",","," ","5">>, <<"R","0","R","1",","," ","0","x","1","2">>,
   <<"R","0","R","1",","," ","1",","," ","2">>}

\* every table instruction: the length Pass 1 counts is the length encoded
C1_TableLengths ==
  \A m \in Mnemonics, op \in C1_Operands :
    assemble_instruction(NoSymbols, m, InstOf(m), op).err = "" =>
      Len(assemble_instruction(NoSymbols, m, InstOf(m), op).bytes) = InstructionLength(m)

C1_PassLengthsAgree ==
  /\ \A i \in 1..Len(p2) : p2[i].err = "" => p1[i].advance = Len(p2[i].bytes)
  /\ phase = "Init" => C1_TableLengths

\* a finished run holding the two-byte FIM line and the DB line
C1_Witness ==
  /\ phase = "Done"
  /\ \E i, j \in 1..Len(p2) :
       /\ lines[i] = Ln_FIM /\ Len(p2[i].bytes) = 2
       /\ lines[j] = Ln_DB /\ Len(p2[j].bytes) = 2

(***************************************************************************)
(* C2.  Once a pass has raised a fatal error, assemble_file has returned   *)
(* False, neither write_binary nor write_listing was invoked, and no       *)
(* binary or listing file exists.                                          *)
(***************************************************************************)
C2_FatalErrorNoOutput ==
  error \in PassErrors =>
    /\ phase = "Failed"
    /\ result = "False"
    /\ ~WriteCalled
    /\ ~bin_file.ok
    /\ ~lst_file.ok

\* Pass 2 raised the malformed-operand error of JCN after a line that emitted
C2_Witness ==
  /\ error = "JcnOperands"
  /\ Len(p2) = 2
  /\ Len(p2[1].bytes) = 1

(***************************************************************************)
(* C3.  As claimed: a run in which writing an output file failed does not *)
(* report success, a run that reports success has written every output     *)
(* file requested, and a failed write of the listing does not leave the    *)
(* binary on disk.                                                         *)
(***************************************************************************)
C3_Original ==
  /\ (error = "CannotWrite" \/ ListingWarned) => result # "True"
  /\ result = "True" => BinaryWritten /\ (listing_file => ListingWritten)
  /\ ListingWarned => ~bin_file.ok

(***************************************************************************)
(* C3, amended.  A failure to write the binary is fatal: assemble_file     *)
(* reports failure and write_listing is not invoked.  A failure to write   *)
(* the listing is a warning only: the run reports success with the binary  *)
(* written and the listing not written.  No run reports success while the  *)
(* binary was not written.                                                 *)
(***************************************************************************)
C3_BinaryFatalListingWarned ==
  /\ error = "CannotWrite" =>
       /\ phase = "Failed"
       /\ result = "False"
       /\ ~ListingCalled
       /\ ~lst_file.ok
  /\ result = "True" => BinaryWritten
  /\ result = "True" /\ listing_file =>
       \/ ListingWritten /\ ~ListingWarned
       \/ ~ListingWritten /\ ListingWarned
  /\ ListingWarned => result = "True" /\ BinaryWritten /\ ~ListingWritten

\* the listing could not be written and the run reported success
C3_Witness ==
  /\ ListingWarned
  /\ result = "True"
  /\ listing_file
  /\ BinaryWritten
  /\ Len(binary) > 0
  /\ lst_file.ok
  /\ Len(lst_file.v.records) < Len(listing)

(***************************************************************************)
(* C4.  The phases follow one another only in the order Init, Pass1,       *)
(* Pass2, Write, Done: Pass 2 runs only after Pass 1 has processed every   *)
(* line without error, the outputs are written only after Pass 2 has       *)
(* processed every line without error, and after a failure nothing more    *)
(* is executed.                                                            *)
(***************************************************************************)
PassOneComplete == Len(p1) = Len(lines) /\ \A i \in 1..Len(p1) : p1[i].err = ""
PassTwoComplete == Len(p2) = Len(lines) /\ \A i \in 1..Len(p2) : p2[i].err = ""

PhaseOrder ==
  {<<"Init", "Pass1">>, <<"Init", "Failed">>,
   <<"Pass1", "Pass1">>, <<"Pass1", "Pass2">>, <<"Pass1", "Failed">>,
   <<"Pass2", "Pass2">>, <<"Pass2", "Write">>, <<"Pass2", "Failed">>,
   <<"Write", "WriteListing">>, <<"Write", "Done">>, <<"Write", "Failed">>,
   <<"WriteListing", "Done">>}

C4_Step ==
  /\ <<phase, phase'>> \in PhaseOrder
  /\ Len(p2') > 0 => PassOneComplete'
  /\ (phase' = "Pass2" => PassOneComplete')
  /\ (phase' \in {"Write", "WriteListing", "Done"} \/ WriteCalled') =>
        PassOneComplete' /\ PassTwoComplete'
  /\ phase # "Failed"

C4_PhaseOrder == [][C4_Step]_vars

\* a run that went through every phase and wrote both files
C4_Witness ==
  /\ phase = "Done"
  /\ calls = <<"pass_one", "pass_two", "write_binary", "write_listing">>
  /\ Len(lines) = MaxLines
  /\ lst_file.ok

(***************************************************************************)
(* C5.  As claimed: for a label L declared exactly once, before or after   *)
(* its use, JUN L emits 0x40 | ((a >> 8) & 0xF) and a & 0xFF, where a is   *)
(* the address cursor at the declaration of L in Pass 1.                   *)
(***************************************************************************)
C5_Original ==
  \A i \in 1..Len(p2) :
    (lines[i] \in JunLines /\ DeclaredOnce(JunTargetOf[lines[i]])) =>
      p2[i].bytes = JunBytes(LabelAddress(JunTargetOf[lines[i]]))

(***************************************************************************)
(* C5, amended.  For a label L declared exactly once, before or after its  *)
(* use, that no EQU binds and whose name is not empty and does not read as *)
(* a number or a register, JUN L emits 0x40 | ((a >> 8) & 0xF) and a & 0xFF, where a is  *)
(* the address cursor at the declaration of L in Pass 1; L: NOP followed   *)
(* by JUN L binds L to 0 and emits 0x40, 0x00.                             *)
(***************************************************************************)
C5_JunEmitsLabelAddress ==
  /\ \A i \in 1..Len(p2) :
       (/\ lines[i] \in JunLines
        /\ DeclaredOnce(JunTargetOf[lines[i]])
        /\ JunTargetOf[lines[i]] # <<>>
        /\ ~EquBound(JunTargetOf[lines[i]])
        /\ JunTargetOf[lines[i]] \notin LiteralNames) =>
         /\ p2[i].err = ""
         /\ p2[i].bytes = JunBytes(LabelAddress(JunTargetOf[lines[i]]))
  /\ (lines = <<Ln_L_NOP, Ln_JUN_L>> /\ Len(p2) = 2) =>
       /\ symbols[<<"L">>] = 0
       /\ p2[2].bytes = <<64, 0>>
       /\ binary = <<0, 64, 0>>

\* a forward reference to a label above address 0xFF
C5_Witness ==
  /\ lines = <<Ln_JUN_L, Ln_ORG_123, Ln_L_NOP>>
  /\ Len(p2) = 3
  /\ p2[1].bytes = <<65, 35>>

(***************************************************************************)
(* C6.  A program whose only statement is NOP assembles without error to   *)
(* a buffer of exactly one byte, 0x00, and the line's address is 0x0000.   *)
(***************************************************************************)
C6_NopAlone ==
  lines = <<Ln_NOP>> =>
    /\ error \in {"", "CannotWrite"}
    /\ phase \in {"Write", "WriteListing", "Done"} =>
         /\ binary = <<0>>
         /\ Len(listing) = 1
         /\ listing[1].address = Some(0)
         /\ listing[1].bytes = <<0>>
    /\ result = "True" => bin_file = Some(<<0>>)

C6_Witness ==
  /\ lines = <<Ln_NOP>>
  /\ result = "True"
  /\ bin_file = Some(<<0>>)

(***************************************************************************)
(* C7.  In Pass 2, ORG a sets the cursor to a and, when a exceeds the      *)
(* length of the output buffer, appends zero bytes so that the length      *)
(* becomes exactly a; otherwise the buffer is unchanged.  ORG 0x010        *)
(* followed by NOP yields 17 bytes, all zero.                              *)
(***************************************************************************)
C7_OrgStep ==
  (phase = "Pass2" /\ idx < Len(lines) /\ lines[idx + 1] = Ln_ORG_010) =>
    /\ phase' = "Pass2"
    /\ current_address' = 16
    /\ Len(binary) < 16 =>
         /\ Len(binary') = 16
         /\ SubSeq(binary', 1, Len(binary)) = binary
         /\ \A k \in (Len(binary) + 1)..16 : binary'[k] = 0
    /\ Len(binary) >= 16 => binary' = binary

C7_Example ==
  (lines = <<Ln_ORG_010, Ln_NOP>> /\ Len(p2) = 2) =>
    /\ Len(binary) = 17
    /\ \A k \in 1..17 : binary[k] = 0
    /\ p2[2].addr = 16

C7_OrgPadsBuffer == [][C7_OrgStep]_vars /\ []C7_Example

\* ORG met with an empty buffer (padded) and again with 17 bytes (unchanged)
C7_Witness ==
  /\ lines = <<Ln_ORG_010, Ln_NOP, Ln_ORG_010>>
  /\ Len(p2) = 3
  /\ Len(binary) = 17
  /\ current_address = 16

(***************************************************************************)
(* C8.  As claimed: after NAME EQU v, with NAME not bound again, every     *)
(* later use of the token NAME as an operand value resolves to v.          *)
(***************************************************************************)
InlineBound(n) == Bindings(n) # {} /\ LastBinding(n).kind = "equ_inline"

BoundNames == {bindLog[k].name : k \in 1..Len(bindLog)}

C8_Original ==
  \A n \in BoundNames :
    InlineBound(n) => resolve_value(symbols, n) = Value(LastBinding(n).value)

(***************************************************************************)
(* C8, amended.  For every name NAME accepted by the inline EQU syntax     *)
(* that does not itself read as a numeric literal (such as AH) or as a     *)
(* register literal (such as R1), after NAME EQU v has been processed and  *)
(* NAME is not bound again, every later use of the token NAME as an        *)
(* operand value, in a later Pass 1 directive and in a Pass 2 operand      *)
(* resolved through resolve, resolves to v.                                *)
(***************************************************************************)
C8_Resolves ==
  \A n \in BoundNames :
    (InlineBound(n) /\ n \notin LiteralNames) =>
      /\ resolve_value(symbols, n) = Value(LastBinding(n).value)
      /\ resolve_value(symbols, Respelled(n)) = Value(LastBinding(n).value)

\* a JUN of Pass 2 naming such a name jumps to v
C8_PassTwoUse ==
  \A i \in 1..Len(p2) :
    (/\ lines[i] \in JunLines
     /\ JunTargetOf[lines[i]] \in BoundNames
     /\ InlineBound(JunTargetOf[lines[i]])
     /\ JunTargetOf[lines[i]] \notin LiteralNames) =>
       p2[i].bytes = JunBytes(LastBinding(JunTargetOf[lines[i]]).value)

\* an ORG of Pass 1 naming such a name moves the cursor to v
C8_PassOneUse ==
  (/\ phase = "Pass1"
   /\ idx < Len(lines)
   /\ lines[idx + 1] = Ln_ORG_L
   /\ <<"L">> \in BoundNames
   /\ InlineBound(<<"L">>)) =>
     /\ phase' = "Pass1"
     /\ current_address' = LastBinding(<<"L">>).value
     /\ org_address' = LastBinding(<<"L">>).value

C8_EquResolves == []C8_Resolves /\ []C8_PassTwoUse /\ [][C8_PassOneUse]_vars

\* l EQU 7 is used by a later ORG of Pass 1 and by a JUN of Pass 2
C8_Witness ==
  /\ lines = <<Ln_l_EQU, Ln_ORG_L, Ln_JUN_L>>
  /\ Len(p2) = 3
  /\ p2[2].addr = 7
  /\ p2[3].bytes = <<64, 7>>

(***************************************************************************)
(* C9.  Defining a symbol is an upsert, the last write wins and it is      *)
(* never an error: after any sequence of label declarations and EQU        *)
(* bindings of Pass 1, the lookup of a name, compared without regard to    *)
(* case and surrounding white space, returns the value of the most recent  *)
(* binding of the name; the label line L: followed by L EQU 7 leaves L     *)
(* bound to 7.                                                             *)
(***************************************************************************)
C9_Lookup ==
  /\ DOMAIN symbols = BoundNames
  /\ BoundNames \subseteq PoolNames
  /\ \A n \in BoundNames :
       /\ Lookup(symbols, n) = Some(LastBinding(n).value)
       /\ Lookup(symbols, Respelled(n)) = Some(LastBinding(n).value)
  /\ (Len(p1) >= 2 /\ lines[1] = Ln_L /\ lines[2] = Ln_l_EQU /\ Len(p1) = 2) =>
       symbols[<<"L">>] = 7

\* a Pass 1 line that only declares a label or binds a name does not fail,
\* whether or not the name is already bound
C9_RebindStep ==
  (/\ phase = "Pass1"
   /\ idx < Len(lines)
   /\ lines[idx + 1] \in {Ln_L, Ln_L_NOP, Ln_R1_NOP, Ln_l_EQU, Ln_R1_EQU}) =>
     /\ phase' = "Pass1"
     /\ Len(bindLog') = Len(bindLog) + 1
     /\ error' = ""

C9_LastWriteWins == []C9_Lookup /\ [][C9_RebindStep]_vars

\* L declared at 0x123 by a label, then bound to 7 by EQU
C9_Witness ==
  /\ lines = <<Ln_ORG_123, Ln_L, Ln_l_EQU>>
  /\ Len(p1) = 3
  /\ Len(bindLog) = 2
  /\ bindLog[1] = Binding(<<"L">>, 291, "label")
  /\ symbols[<<"L">>] = 7

(***************************************************************************)
(* C10.  As claimed: a standalone EQU expr line that no label declaration  *)
(* precedes fails the run with the missing-label error, whatever other     *)
(* lines, inline NAME EQU expr lines included, came before it.             *)
(***************************************************************************)
NoLabelBefore(i) == \A j \in 1..(i - 1) : lines[j] \notin LabelLines
NoInlineEquBefore(i) == \A j \in 1..(i - 1) : lines[j] \notin InlineEquLines
BareEqu(i) == lines[i] \in BareEquLines

C10_Original ==
  \A i \in 1..Len(p1) :
    (BareEqu(i) /\ NoLabelBefore(i)) => p1[i].err = "EquWithoutLabel"

(***************************************************************************)
(* C10, amended.  A standalone EQU expr line that Pass 1 reaches and that  *)
(* is preceded, anywhere earlier in the file, by neither a label           *)
(* declaration name: nor an inline NAME EQU expr line fails the run with   *)
(* the fatal missing-label error.                                          *)
(***************************************************************************)
C10_EquWithoutLabel ==
  \A i \in 1..Len(p1) :
    (BareEqu(i) /\ NoLabelBefore(i) /\ NoInlineEquBefore(i)) =>
      /\ p1[i].err = "EquWithoutLabel"
      /\ Len(p1) = i
      /\ phase = "Failed"
      /\ result = "False"
      /\ error = "EquWithoutLabel"
      /\ bindLog = <<>>

\* EQU 3 after lines that declare nothing
C10_Witness ==
  /\ lines = <<Ln_ORG_123, Ln_JUN_L, Ln_EQU>>
  /\ Len(p1) = 3
  /\ error = "EquWithoutLabel"


(***************************************************************************)
(* C11.  As claimed: for every defined symbol S with value v and every     *)
(* numeric literal n, the operand text S+n resolves to v + n.              *)
(***************************************************************************)
C11_Literals ==
  {[text |-> <<"2">>, value |-> 2],
   [text |-> <<"0","x","1","0">>, value |-> 16],
   [text |-> <<"1","0","h">>, value |-> 16],
   [text |-> <<" ","7">>, value |-> 7],
   [text |-> <<"-","2">>, value |-> 0 - 2]}

C11_Text(n, lit) == n \o <<"+">> \o lit.text

IsIdentifier(n) ==
  /\ n # <<>>
  /\ n[1] \notin DecDigits
  /\ \A k \in 1..Len(n) : n[k] \in WordChars

Identifiers == {n \in PoolNames : IsIdentifier(n)}

C11_Resolves ==
  \A n \in DOMAIN symbols, lit \in C11_Literals :
    (/\ n \in Identifiers
     /\ n \notin LiteralNames
     /\ normalize_symbol(C11_Text(n, lit)) \notin DOMAIN symbols) =>
       /\ resolve_value(symbols, C11_Text(n, lit)) = Value(symbols[n] + lit.value)
       /\ resolve_value(symbols, Respelled(n) \o <<"+">> \o lit.text)
            = Value(symbols[n] + lit.value)

\* ORG L+2 in Pass 1 moves the cursor to the address of L plus 2
C11_OrgStep ==
  (/\ phase = "Pass1"
   /\ idx < Len(lines)
   /\ lines[idx + 1] = Ln_ORG_Lp2
   /\ <<"L">> \in DOMAIN symbols) =>
     /\ phase' = "Pass1"
     /\ current_address' = symbols[<<"L">>] + 2
     /\ org_address' = symbols[<<"L">>] + 2

C12_Tokens ==
  {<<>>, <<" ">>, <<"2">>, <<"L">>, <<"U">>, <<"+">>, <<"-">>, <<"+","-">>,
   <<"L","+","2">>, <<"L"," ","+"," ","2">>, <<"L","+","U">>, <<"U","-","1">>,
   <<"L","+">>, <<"-","L">>, <<"R","1","+","1">>, <<"-","-","2">>,
   <<"L","-","U","+","1">>}

HasOperator(tok) == Find(tok, "+") # 0 \/ Find(tok, "-") # 0

\* the terms of a token: what stands between its operators, spaces removed
NonEmpty(pieces) == {pieces[j] : j \in {j \in 1..Len(pieces) : pieces[j] # <<>>}}
PiecesOf(parts) == UNION {NonEmpty(SplitAll(parts[k], "-")) : k \in 1..Len(parts)}
TermsOf(tok) == PiecesOf(SplitAll(RemoveSpaces(tok), "+"))

SimplyResolves(tok) == resolve_simple_value(symbols, tok).ok
TermsResolve(tok) == \A term \in TermsOf(tok) : SimplyResolves(term)

C12_Original ==
  \A tok \in C12_Tokens :
    /\ resolve_value(symbols, tok).ok
         <=> (SimplyResolves(tok) \/ (HasOperator(tok) /\ TermsResolve(tok)))
    /\ ~resolve_value(symbols, tok).ok => resolve_value(symbols, tok).err = "UnknownSymbol"

(***************************************************************************)
(* C12, amended.  resolve succeeds on a token exactly when simple          *)
(* resolution (literal, register, symbol) succeeds, or the token contains  *)
(* + or -, has at least one term and every one of its terms resolves       *)
(* simply; otherwise it raises a fatal error carrying the current line     *)
(* number, the missing-value error for an empty token and the unresolved-  *)
(* symbol error for any other, so an additive expression with an undefined *)
(* term never yields a value and the run aborts before any file is         *)
(* written.                                                                *)
(***************************************************************************)
C12_Resolve ==
  \A tok \in C12_Tokens :
    /\ resolve_value(symbols, tok).ok
         <=> \/ SimplyResolves(tok)
             \/ HasOperator(tok) /\ TermsOf(tok) # {} /\ TermsResolve(tok)
    /\ ~resolve_value(symbols, tok).ok =>
         resolve_value(symbols, tok).err
           = IF trim(tok) = <<>> THEN "MissingValue" ELSE "UnknownSymbol"

\* the run: DW L-U fails in Pass 2 at its own line and nothing is written
C12_Run ==
  /\ \A i \in 1..Len(p2) :
       lines[i] = Ln_DW_LmU =>
         /\ p2[i].err = "UnknownSymbol"
         /\ p2[i].bytes = <<>>
         /\ Len(p2) = i
  /\ error \in {"UnknownSymbol", "MissingValue"} =>
       /\ phase = "Failed"
       /\ result = "False"
       /\ line_number = idx
       /\ (Len(p2) = 0 => Len(p1) = idx /\ p1[idx].err = error)
       /\ (Len(p2) > 0 => Len(p2) = idx /\ p2[idx].err = error)
       /\ ~WriteCalled
       /\ ~bin_file.ok
       /\ ~lst_file.ok

C12_ResolveExactly == C12_Resolve /\ C12_Run

\* L is defined, U is not: DW L-U stops Pass 2 at line 2
C12_Witness ==
  /\ lines = <<Ln_L_NOP, Ln_DW_LmU>>
  /\ Len(p2) = 2
  /\ error = "UnknownSymbol"
  /\ line_number = 2
  /\ <<"L">> \in DOMAIN symbols


(***************************************************************************)
(* C13: a mnemonic outside the instruction table.                          *)
(***************************************************************************)

Directives == {M_ORG, M_EQU} \cup DataByteNames \cup DataWordNames

\* the lines whose statement is neither an instruction nor a directive
UnknownLines ==
  {l \in AllLines : /\ HasStatement(l)
                    /\ ~IsInlineEqu(l)
                    /\ LineStatement(l).mnemonic \notin Mnemonics \cup Directives}

UnknownWarned(i) ==
  \E k \in 1..Len(warnings) :
    warnings[k] = [line |-> i, what |-> "UnknownMnemonic"]

\* Pass 1 goes over an unknown mnemonic without an error and without
\* moving the cursor
C13_PassOne ==
  \A i \in 1..Len(p1) :
    lines[i] \in UnknownLines => p1[i].err = "" /\ p1[i].advance = 0

\* Pass 2 stops at the unknown mnemonic: no byte, no write call, no file
C13_PassTwo ==
  \A i \in 1..Len(p2) :
    lines[i] \in UnknownLines =>
      /\ p2[i].err = "UnknownInstruction"
      /\ p2[i].bytes = <<>>
      /\ phase = "Failed"
      /\ result = "False"
      /\ ~WriteCalled
      /\ bin_file = None
      /\ lst_file = None

\* C13 as stated: Pass 1 logs the warning whatever the verbosity
C13_Original ==
  \A i \in 1..Len(p1) : lines[i] \in UnknownLines => UnknownWarned(i)

\* C13 (amended): on an unknown mnemonic Pass 1 logs a warning exactly when
\* the assembler is verbose, raises nothing and advances the cursor by 0;
\* Pass 2 then raises the unknown-instruction error and nothing is written
C13_UnknownMnemonic ==
  /\ C13_PassOne
  /\ C13_PassTwo
  /\ \A i \in 1..Len(p1) :
       lines[i] \in UnknownLines => (UnknownWarned(i) <=> verbose)

\* quiet run of "X: BAR 1, 2" then "JUN X": no warning, X stays at 0, Pass 2 fails
C13_Witness ==
  /\ ~verbose
  /\ lines = <<Ln_X_BAR, Ln_JUN_X>>
  /\ Len(p1) = 2
  /\ Len(p2) = 1
  /\ warnings = <<>>
  /\ error = "UnknownInstruction"
  /\ symbols[<<"X">>] = 0


(***************************************************************************)
(* C14: the two bytes of FIM.                                              *)
(***************************************************************************)

\* FIM lines with the pair index and the immediate operands they name
C14_Cases ==
  {[line |-> Ln_FIM, pair |-> 0, imm |-> <<1, 2>>],
   [line |-> Ln_FIM_Byte, pair |-> 1, imm |-> <<506>>],
   [line |-> Ln_FIM_Wide, pair |-> 7, imm |-> <<31, 46>>],
   [line |-> Ln_FIM_Even, pair |-> 2, imm |-> <<-1>>],
   [line |-> Ln_FIM_High, pair |-> 8, imm |-> <<3>>]}

\* the immediate of the two forms, as the claim gives it
C14_Immediate(imm) ==
  IF Len(imm) = 1 THEN imm[1] ELSE (imm[1] % 16) * 16 + (imm[2] % 16)

C14_Bytes(c) == <<32 + (c.pair % 8), C14_Immediate(c.imm) % 256>>

C14_Expected == [l \in {c.line : c \in C14_Cases} |->
                  C14_Bytes(CHOOSE c \in C14_Cases : c.line = l)]

\* the encoder on each case, whatever the symbol table
C14_Encoder ==
  \A l \in DOMAIN C14_Expected :
    assemble_instruction(symbols, M_FIM, InstOf(M_FIM), LineStatement(l).operand_str)
      = Encoded(C14_Expected[l])

\* both passes on each case met so far
C14_Passes ==
  /\ \A i \in 1..Len(p1) : lines[i] \in DOMAIN C14_Expected => p1[i].advance = 2
  /\ \A i \in 1..Len(p2) :
       lines[i] \in DOMAIN C14_Expected =>
         p2[i].err = "" /\ p2[i].bytes = C14_Expected[lines[i]]

\* Pass 2 appends the two bytes to the buffer
C14_Step ==
  (phase = "Pass2" /\ idx < Len(lines) /\ lines[idx + 1] \in DOMAIN C14_Expected) =>
    /\ binary' = binary \o C14_Expected[lines[idx + 1]]
    /\ current_address' = current_address + 2

C14_Example ==
  /\ C14_Expected[Ln_FIM] = <<32, 18>>
  /\ (lines = <<Ln_FIM>> /\ Len(p2) = 1) => binary = <<32, 18>>

\* C14: FIM emits exactly 2 bytes, 0x20 | (pair & 7) and then the immediate
\* masked to 8 bits, the immediate being the byte operand or
\* ((hi & 0xF) << 4) | (lo & 0xF); FIM R0R1, 0x1, 0x2 ends in 0x12
C14_FimTwoBytes ==
  /\ [](C14_Encoder /\ C14_Passes /\ C14_Example)
  /\ [][C14_Step]_vars

\* both forms assembled with operands wider than their fields
C14_Witness ==
  /\ lines = <<Ln_FIM, Ln_FIM_Wide, Ln_FIM_Byte>>
  /\ phase = "Done"
  /\ binary = <<32, 18, 39, 254, 33, 250>>
  /\ bin_file = Some(binary)


(***************************************************************************)
(* C15: values wider than their field are truncated without a diagnostic.  *)
(***************************************************************************)

\* lines whose operand values exceed the field they go to, with the bytes
\* the field widths leave: pair index 9, immediate 0x1F, condition 0x1A,
\* 8-bit address and data 0x1FA and -1, word 0x12345, jump address 0x1FA5
C15_Expected ==
  (Ln_FIN_High :> <<48 + (9 % 8)>>)
    @@ (Ln_LDM_Wide :> <<208 + (31 % 16)>>)
    @@ (Ln_JCN_Wide :> <<16 + (26 % 16), 506 % 256>>)
    @@ (Ln_DB_Wide :> <<506 % 256, (-1) % 256>>)
    @@ (Ln_DW_Wide :> <<74565 % 256, (74565 \div 256) % 256>>)
    @@ (Ln_JUN_Wide :> <<64 + ((8101 \div 256) % 16), 8101 % 256>>)
    @@ (Ln_ISZ_Wide :> <<112 + 3, 506 % 256>>)
    @@ (Ln_FIM_Wide :> <<32 + 7, (31 % 16) * 16 + (46 % 16)>>)

\* neither pass raises on such a line, and Pass 2 emits the masked bytes
C15_Passes ==
  /\ \A i \in 1..Len(p1) : lines[i] \in DOMAIN C15_Expected => p1[i].err = ""
  /\ \A i \in 1..Len(p2) :
       lines[i] \in DOMAIN C15_Expected =>
         /\ p2[i].err = ""
         /\ p2[i].bytes = C15_Expected[lines[i]]
         /\ \A k \in 1..Len(p2[i].bytes) : p2[i].bytes[k] \in 0..255

\* no warning is logged for such a line and the pass goes on
C15_Step ==
  (phase \in {"Pass1", "Pass2"} /\ idx < Len(lines)
     /\ lines[idx + 1] \in DOMAIN C15_Expected) =>
    /\ warnings' = warnings
    /\ phase' = phase
    /\ error' = error

\* a register operand that resolves is already a nibble
C15_RegisterNibble ==
  \A l \in AllLines :
    resolve_register(symbols, LineStatement(l).operand_str).ok =>
      resolve_register(symbols, LineStatement(l).operand_str).v \in 0..15

C16_Operands ==
  {[text |-> <<>>, count |-> 1],
   [text |-> <<"R","2">>, count |-> 1],
   [text |-> <<"R","2",","," ","5">>, count |-> 2],
   [text |-> <<"R","2",",","5">>, count |-> 2],
   [text |-> <<",">>, count |-> 2],
   [text |-> <<"R","2",","," ","5",","," ","6">>, count |-> 3],
   [text |-> <<"R","2",","," ","5",",">>, count |-> 3],
   [text |-> <<"R","2",","," ","5",","," ","6",","," ","7">>, count |-> 4]}

\* the counts each of the three mnemonics takes and the error of the others
C16_Rules ==
  {[mnemonic |-> M_ISZ, counts |-> {2}, err |-> "IszOperands"],
   [mnemonic |-> M_FIM, counts |-> {2, 3}, err |-> "FimOperands"],
   [mnemonic |-> M_JCN, counts |-> {2}, err |-> "JcnOperands"]}

\* the encoder raises the operand-count error exactly on the other counts
C16_Encoder ==
  \A r \in C16_Rules : \A o \in C16_Operands :
    (assemble_instruction(symbols, r.mnemonic, InstOf(r.mnemonic), o.text)
       = Raised(r.err)) <=> (o.count \notin r.counts)

\* the lines of the pools with a wrong operand count, and their error
C16_Wrong ==
  (Ln_ISZ_1 :> "IszOperands") @@ (Ln_ISZ_3 :> "IszOperands")
    @@ (Ln_FIM_1 :> "FimOperands") @@ (Ln_FIM_4 :> "FimOperands")
    @@ (Ln_JCN_1 :> "JcnOperands") @@ (Ln_JCN_3 :> "JcnOperands")

C16_Right == {Ln_ISZ_2, Ln_FIM, Ln_JCN_2}

\* Pass 2 stops at a wrong count with no byte; a right count is assembled
C16_Passes ==
  \A i \in 1..Len(p2) :
    /\ lines[i] \in DOMAIN C16_Wrong =>
         /\ p2[i].err = C16_Wrong[lines[i]]
         /\ p2[i].bytes = <<>>
         /\ phase = "Failed"
         /\ result = "False"
         /\ ~WriteCalled
         /\ bin_file = None
         /\ lst_file = None
    /\ lines[i] \in C16_Right => p2[i].err = "" /\ Len(p2[i].bytes) = 2

\* the line with the wrong count leaves the buffer as it was
C16_Step ==
  (phase = "Pass2" /\ idx < Len(lines) /\ lines[idx + 1] \in DOMAIN C16_Wrong) =>
    /\ binary' = binary
    /\ phase' = "Failed"

\* C16: ISZ takes exactly 2 comma-separated operands, FIM 2 or 3, JCN
\* exactly 2; any other count is a fatal error, the line emits no byte and
\* no output file is written
C16_OperandCounts ==
  /\ [](C16_Encoder /\ C16_Passes)
  /\ [][C16_Step]_vars

\* a well-formed ISZ is assembled, then JCN with three operands aborts the run
C16_Witness ==
  /\ lines = <<Ln_ISZ_2, Ln_JCN_3>>
  /\ Len(p2) = 2
  /\ binary = <<113, 5>>
  /\ error = "JcnOperands"
  /\ phase = "Failed"


(***************************************************************************)
(* C17: the one-byte instructions.                                         *)
(***************************************************************************)

C17_KindOf(kind) == {e.mnemonic : e \in {x \in INSTRUCTION_SET : x.op_type = kind}}

\* operand texts with the register, pair index or value they name
C17_Registers ==
  {[text |-> <<"R","0">>, v |-> 0], [text |-> <<"R","3">>, v |-> 3], [text |-> <<" ","r","7"," ">>, v |-> 7],
   [text |-> <<"R","1","5">>, v |-> 15]}
C17_Pairs ==
  {[text |-> <<"R","0","R","1">>, v |-> 0], [text |-> <<"R","4","R","5">>, v |-> 2], [text |-> <<"R","1","4","R","1","5">>, v |-> 7],
   [text |-> <<"R","6">>, v |-> 3], [text |-> <<"R","1","8","R","1","9">>, v |-> 9]}
C17_Values ==
  {[text |-> <<"0">>, v |-> 0], [text |-> <<"9">>, v |-> 9], [text |-> <<"0","x","1","F">>, v |-> 31],
   [text |-> <<"-","1">>, v |-> -1]}

\* opcode | field for an opcode whose low nibble is 0 or 1
C17_Or(opcode, field) ==
  IF opcode % 2 = 1 /\ field % 2 = 1 THEN opcode + field - 1 ELSE opcode + field

C17_Table ==
  /\ C17_KindOf("REGISTER") \ {M_ISZ}
       = {<<"I","N","C">>, <<"A","D","D">>, <<"S","U","B">>, <<"L","D">>, <<"X","C","H">>}
  /\ C17_KindOf("REGISTER_PAIR") \ {M_FIM}
       = {<<"S","R","C">>, <<"J","I","N">>, <<"F","I","N">>}
  /\ C17_KindOf("IMMEDIATE") = {<<"B","B","L">>, <<"L","D","M">>}
  /\ \A e \in INSTRUCTION_SET : e.opcode % 16 \in {0, 1} \/ e.op_type = "NONE"

\* the encoder on every one-byte mnemonic of each kind
C17_Encoder ==
  /\ \A m \in C17_KindOf("NONE") :
       assemble_instruction(symbols, m, InstOf(m), <<>>) = Encoded(<<InstOf(m).opcode>>)
  /\ \A m \in C17_KindOf("REGISTER") \ {M_ISZ} : \A o \in C17_Registers :
       assemble_instruction(symbols, m, InstOf(m), o.text)
         = Encoded(<<C17_Or(InstOf(m).opcode, o.v % 16)>>)
  /\ \A m \in C17_KindOf("REGISTER_PAIR") \ {M_FIM} : \A o \in C17_Pairs :
       assemble_instruction(symbols, m, InstOf(m), o.text)
         = Encoded(<<C17_Or(InstOf(m).opcode, o.v % 8)>>)
  /\ \A m \in C17_KindOf("IMMEDIATE") : \A o \in C17_Values :
       assemble_instruction(symbols, m, InstOf(m), o.text)
         = Encoded(<<C17_Or(InstOf(m).opcode, o.v % 16)>>)

\* the byte of each one-byte line of the pool: CLB F0, INC R3 63, XCH R15 BF,
\* SRC R4R5 21|2, FIN R6 30|3, BBL 3 C3, LDM 0x1F DF
C17_Expected ==
  (Ln_NOP :> 0) @@ (Ln_CLB :> 240) @@ (Ln_INC_R3 :> 99) @@ (Ln_XCH_R15 :> 191)
    @@ (Ln_SRC_R4R5 :> 35) @@ (Ln_FIN_R6 :> 51) @@ (Ln_BBL_3 :> 195)
    @@ (Ln_LDM_Wide :> 223)

C17_Passes ==
  /\ \A i \in 1..Len(p1) : lines[i] \in DOMAIN C17_Expected => p1[i].advance = 1
  /\ \A i \in 1..Len(p2) :
       lines[i] \in DOMAIN C17_Expected =>
         p2[i].err = "" /\ p2[i].bytes = <<C17_Expected[lines[i]]>>

C17_Step ==
  (phase = "Pass2" /\ idx < Len(lines) /\ lines[idx + 1] \in DOMAIN C17_Expected) =>
    /\ binary' = Append(binary, C17_Expected[lines[idx + 1]])
    /\ current_address' = current_address + 1

\* C17: a one-byte instruction emits exactly one byte: the opcode for the
\* None kind, opcode | (reg & 0xF) for INC, ADD, SUB, LD, XCH,
\* opcode | (pair & 0x7) for SRC, JIN, FIN, opcode | (value & 0xF) for BBL, LDM
C17_OneByteLayouts ==
  /\ [](C17_Table /\ C17_Encoder /\ C17_Passes)
  /\ [][C17_Step]_vars

\* a register, a pair and an immediate instruction assembled and written
C17_Witness ==
  /\ lines = <<Ln_XCH_R15, Ln_SRC_R4R5, Ln_BBL_3>>
  /\ phase = "Done"
  /\ bin_file = Some(<<191, 35, 195>>)


(***************************************************************************)
(* C18: the two-byte jump-class instructions.                              *)
(***************************************************************************)

M_JMS == <<"J","M","S">>

\* operand texts with the value they name
C18_Addresses ==
  {[text |-> <<"0">>, v |-> 0], [text |-> <<"0","x","1","2","3">>, v |-> 291], [text |-> <<"0","x","A","B","C">>, v |-> 2748],
   [text |-> <<"0","x","1","F","A","5">>, v |-> 8101], [text |-> <<"-","1">>, v |-> -1]}
C18_Conditions ==
  {[text |-> <<"1">>, v |-> 1], [text |-> <<"0","x","C">>, v |-> 12], [text |-> <<"0","x","1","A">>, v |-> 26]}

C18_Join(first, second) == first \o <<",", " ">> \o second

\* the encoder on JUN and JMS, on JCN and on ISZ
C18_Encoder ==
  /\ \A m \in {M_JUN, M_JMS} : \A a \in C18_Addresses :
       assemble_instruction(symbols, m, InstOf(m), a.text)
         = Encoded(<<InstOf(m).opcode + ((a.v \div 256) % 16), a.v % 256>>)
  /\ \A c \in C18_Conditions : \A a \in C18_Addresses :
       assemble_instruction(symbols, M_JCN, InstOf(M_JCN), C18_Join(c.text, a.text))
         = Encoded(<<16 + (c.v % 16), a.v % 256>>)
  /\ \A r \in C17_Registers : \A a \in C18_Addresses :
       assemble_instruction(symbols, M_ISZ, InstOf(M_ISZ), C18_Join(r.text, a.text))
         = Encoded(<<112 + (r.v % 16), a.v % 256>>)

\* the bytes of each jump line of the pool: JUN 0x123 41 23, JMS 0xABC 5A BC,
\* JUN 0x1FA5 4F A5, JCN 1, 2 11 02, JCN 0x1A, 0x1FA 1A FA, ISZ R1, 5 71 05,
\* ISZ R3, 0x1FA 73 FA
C18_Expected ==
  (Ln_JUN_123 :> <<65, 35>>) @@ (Ln_JMS_ABC :> <<90, 188>>)
    @@ (Ln_JUN_Wide :> <<79, 165>>) @@ (Ln_JCN_2 :> <<17, 2>>)
    @@ (Ln_JCN_Wide :> <<26, 250>>) @@ (Ln_ISZ_2 :> <<113, 5>>)
    @@ (Ln_ISZ_Wide :> <<115, 250>>)

C18_Passes ==
  /\ \A i \in 1..Len(p1) : lines[i] \in DOMAIN C18_Expected => p1[i].advance = 2
  /\ \A i \in 1..Len(p2) :
       lines[i] \in DOMAIN C18_Expected =>
         p2[i].err = "" /\ p2[i].bytes = C18_Expected[lines[i]]

C18_Step ==
  (phase = "Pass2" /\ idx < Len(lines) /\ lines[idx + 1] \in DOMAIN C18_Expected) =>
    /\ binary' = binary \o C18_Expected[lines[idx + 1]]
    /\ current_address' = current_address + 2

\* C18: JUN and JMS emit opcode | ((addr >> 8) & 0xF) then addr & 0xFF,
\* JCN emits 0x10 | (cond & 0xF) then addr & 0xFF, ISZ emits
\* 0x70 | (reg & 0xF) then addr & 0xFF: two bytes each
C18_JumpLayouts ==
  /\ [](C18_Encoder /\ C18_Passes)
  /\ [][C18_Step]_vars

\* JMS, JCN and ISZ assembled and written
C18_Witness ==
  /\ lines = <<Ln_JMS_ABC, Ln_JCN_Wide, Ln_ISZ_2>>
  /\ phase = "Done"
  /\ bin_file = Some(<<90, 188, 26, 250, 113, 5>>)


(***************************************************************************)
(* C19: the data directives.                                               *)
(***************************************************************************)

\* data lines whose operands all resolve, with the values of the operands
C19_Cases ==
  {[line |-> Ln_DB_3, word |-> FALSE, values |-> <<1, 506, -1>>],
   [line |-> Ln_BYTE_7, word |-> FALSE, values |-> <<7>>],
   [line |-> Ln_DW_2, word |-> TRUE, values |-> <<4660, 5>>],
   [line |-> Ln_WORD_Wide, word |-> TRUE, values |-> <<74565>>]}

\* one byte per value
C19_ByteSeq(values) == [i \in 1..Len(values) |-> values[i] % 256]

\* low byte then high byte of each value
RECURSIVE C19_WordSeq(_)
C19_WordSeq(values) ==
  IF values = <<>> THEN <<>>
  ELSE <<Head(values) % 256, (Head(values) \div 256) % 256>> \o C19_WordSeq(Tail(values))

C19_Bytes(c) == IF c.word THEN C19_WordSeq(c.values) ELSE C19_ByteSeq(c.values)

C19_Expected == [l \in {c.line : c \in C19_Cases} |->
                  C19_Bytes(CHOOSE c \in C19_Cases : c.line = l)]

C19_Operands == [l \in {c.line : c \in C19_Cases} |->
                  Len((CHOOSE c \in C19_Cases : c.line = l).values)]

C19_IsWord == {c.line : c \in {x \in C19_Cases : x.word}}

\* k operands give k bytes, or 2k for a word line, in both passes
C19_Lengths ==
  /\ \A l \in DOMAIN C19_Expected :
       Len(C19_Expected[l]) = IF l \in C19_IsWord THEN 2 * C19_Operands[l]
                              ELSE C19_Operands[l]
  /\ \A i \in 1..Len(p1) :
       lines[i] \in DOMAIN C19_Expected => p1[i].advance = Len(C19_Expected[lines[i]])

C19_Passes ==
  \A i \in 1..Len(p2) :
    lines[i] \in DOMAIN C19_Expected =>
      p2[i].err = "" /\ p2[i].bytes = C19_Expected[lines[i]]

\* "DB 1,L": the second operand goes through the symbol table
C19_Symbol ==
  \A i \in 1..Len(p2) :
    lines[i] = Ln_DB =>
      IF <<"L">> \in DOMAIN symbols
      THEN p2[i].err = "" /\ p2[i].bytes = <<1, symbols[<<"L">>] % 256>>
      ELSE p2[i].err = "UnknownSymbol" /\ p2[i].bytes = <<>>

\* an operand that does not resolve ends the run with nothing written
C19_Fatal ==
  \A i \in 1..Len(p2) :
    /\ lines[i] = Ln_DW_U => p2[i].err = "UnknownSymbol"
    /\ lines[i] = Ln_DB_None => p2[i].err = "MissingValue"
    /\ p2[i].err # "" =>
         /\ p2[i].bytes = <<>>
         /\ phase = "Failed"
         /\ result = "False"
         /\ ~WriteCalled
         /\ bin_file = None
         /\ lst_file = None

C19_Step ==
  (phase = "Pass2" /\ idx < Len(lines)) =>
    /\ lines[idx + 1] \in DOMAIN C19_Expected =>
         binary' = binary \o C19_Expected[lines[idx + 1]]
    /\ lines[idx + 1] \in {Ln_DW_U, Ln_DB_None} => binary' = binary

\* C19: DB/BYTE with k operands emits the k bytes value & 0xFF, DW/WORD the
\* 2k bytes low then high of each value, in operand order; an operand that
\* does not resolve is fatal
C19_DataDirectives ==
  /\ [](C19_Lengths /\ C19_Passes /\ C19_Symbol /\ C19_Fatal)
  /\ [][C19_Step]_vars

\* bytes and words written, the label of line 1 read by the last DB
C19_Witness ==
  /\ lines = <<Ln_L_NOP, Ln_DW_2, Ln_DB>>
  /\ phase = "Done"
  /\ bin_file = Some(<<0, 52, 18, 5, 0, 1, 0>>)


(***************************************************************************)
(* C20: resolution of a register-pair operand.                             *)
(***************************************************************************)

\* compound names R(2k)R(2k+1) and even register names R(2k), with k
C20_Compounds ==
  {[text |-> <<"R","0","R","1">>, k |-> 0], [text |-> <<" ","r","2","r","3"," ">>, k |-> 1], [text |-> <<"R","4","R","5">>, k |-> 2],
   [text |-> <<"R","1","4","R","1","5">>, k |-> 7], [text |-> <<"R","1","8","R","1","9">>, k |-> 9]}
C20_EvenRegisters ==
  {[text |-> <<"R","0">>, k |-> 0], [text |-> <<"R","6">>, k |-> 3], [text |-> <<"R","1","4">>, k |-> 7]}

\* odd register names
C20_OddRegisters == {<<"R","1">>, <<"R","3">>, <<"R","1","5">>}

\* compounds whose first register is odd or whose second is not first+1
C20_BadCompounds == {<<"R","1","R","2">>, <<"R","2","R","4">>, <<"R","3","R","2">>, <<"R","2","R","2">>, <<"R","2","R","3","R","4">>}

C20_Good ==
  \A o \in C20_Compounds \cup C20_EvenRegisters :
    resolve_register_pair(symbols, o.text) = Some(o.k)

C20_OddFails ==
  \A n \in C20_OddRegisters : ~resolve_register_pair(symbols, n).ok

\* the value of name n names an even register
C20_EvenSymbol(n) ==
  /\ n \in DOMAIN symbols
  /\ symbols[n] \in 0..15
  /\ symbols[n] % 2 = 0

C20_BadCompound ==
  \A n \in C20_BadCompounds :
    resolve_register_pair(symbols, n)
      = IF C20_EvenSymbol(n) THEN Some(symbols[n] \div 2) ELSE None

\* the lines of the pool with an odd register or a malformed compound
C20_BadLines == {Ln_SRC_R3, Ln_SRC_R1R2, Ln_JIN_R2R4, Ln_FIM_Odd}

C20_PairErrors == {"InvalidRegisterPair", "InvalidFimPair"}

\* C20 as stated: such an operand never resolves and its line is fatal
C20_Original ==
  /\ \A n \in C20_OddRegisters \cup C20_BadCompounds :
       ~resolve_register_pair(symbols, n).ok
  /\ \A i \in 1..Len(p2) :
       lines[i] \in C20_BadLines => p2[i].err \in C20_PairErrors

C20_Lines ==
  \A i \in 1..Len(p2) :
    /\ lines[i] = Ln_SRC_R4R5 => p2[i].bytes = <<35>>
    /\ lines[i] = Ln_FIN_R6 => p2[i].bytes = <<51>>
    /\ lines[i] = Ln_FIN_High => p2[i].bytes = <<49>>
    /\ lines[i] \in {Ln_SRC_R3, Ln_JIN_R2R4} => p2[i].err = "InvalidRegisterPair"
    /\ lines[i] = Ln_FIM_Odd => p2[i].err = "InvalidFimPair"
    /\ lines[i] = Ln_SRC_R1R2 =>
         IF C20_EvenSymbol(<<"R","1","R","2">>)
         THEN p2[i].err = "" /\ p2[i].bytes = <<35>>
         ELSE p2[i].err = "InvalidRegisterPair"
    /\ p2[i].err \in C20_PairErrors =>
         /\ phase = "Failed"
         /\ result = "False"
         /\ ~WriteCalled
         /\ bin_file = None

\* C20 (amended): a compound R(2k)R(2k+1) and an even register R(2k) resolve
\* to pair index k; an odd register name does not resolve; a compound whose
\* first register is odd or whose second is not first+1 does not resolve
\* unless it is a defined symbol with an even value in 0..15, which gives half
\* that value; an operand that does not resolve is fatal
C20_PairResolution == C20_Good /\ C20_OddFails /\ C20_BadCompound /\ C20_Lines

\* R1R2 defined as 4: SRC R1R2 is assembled as pair 2, SRC R3 then fails
C20_Witness ==
  /\ lines = <<Ln_R1R2_EQU, Ln_SRC_R1R2, Ln_SRC_R3>>
  /\ Len(p2) = Len(lines)
  /\ binary = <<35>>
  /\ error = "InvalidRegisterPair"


(***************************************************************************)
(* C21: Pass 2 leaves the symbol table as Pass 1 left it.                  *)
(***************************************************************************)

PassTwoEntered == \E k \in 1..Len(calls) : calls[k] = "pass_two"

\* the table the store_symbol calls of Pass 1 add up to
C21_EndOfPassOne ==
  [n \in {bindLog[k].name : k \in 1..Len(bindLog)} |-> LastBinding(n).value]

\* no step taken once pass_two is entered changes the table
C21_Step == PassTwoEntered => symbols' = symbols /\ bindLog' = bindLog

\* C21: from the start of Pass 2 on, whatever lines it processes, the set of
\* symbols and their values are those at the end of Pass 1
C21_SymbolsReadOnly ==
  /\ [](PassTwoEntered => symbols = C21_EndOfPassOne)
  /\ [][C21_Step]_vars

\* Pass 2 went over a label declared twice, a standalone EQU in between
C21_Witness ==
  /\ lines = <<Ln_L_NOP, Ln_EQU, Ln_L_NOP>>
  /\ phase = "Done"
  /\ Len(p2) = 3
  /\ symbols = (<<"L">> :> 1)


(***************************************************************************)
(* C22: the order of simple resolution.                                    *)
(***************************************************************************)

\* numeric literals in each notation, with their value
C22_Numbers ==
  {[text |-> <<"1","0">>, value |-> 10],
   [text |-> <<"-","2">>, value |-> 0 - 2],
   [text |-> <<"0","x","1","F">>, value |-> 31],
   [text |-> <<"0","X","1","f">>, value |-> 31],
   [text |-> <<"$","1","F">>, value |-> 31],
   [text |-> <<"1","F","h">>, value |-> 31],
   [text |-> <<"1","F","H">>, value |-> 31],
   [text |-> <<"A","H">>, value |-> 10],
   [text |-> <<"0","b","1","0","1">>, value |-> 5],
   [text |-> <<"0","B","1","0","1">>, value |-> 5],
   [text |-> <<" ","7"," ">>, value |-> 7]}

\* register literals Rn, with n
C22_Registers ==
  {[text |-> <<"R","0">>, value |-> 0],
   [text |-> <<"R","1">>, value |-> 1],
   [text |-> <<"r","7">>, value |-> 7],
   [text |-> <<"R","1","5">>, value |-> 15]}

\* tokens that are neither
C22_Others ==
  {<<"L">>, <<"l">>, <<"U">>, <<"R","1","6">>, <<"R","1","R","2">>, <<"0","x">>, <<"1","2","Z">>, <<"0","b","1","2">>, <<"G","1","h">>}

\* a literal and a register yield their own value whatever the table holds
C22_LiteralFirst ==
  \A o \in C22_Numbers \cup C22_Registers :
    resolve_simple_value(symbols, o.text) = Some(o.value)

\* any other token is looked up, and is unresolved when the table lacks it
C22_SymbolLast ==
  \A n \in C22_Others :
    resolve_simple_value(symbols, n)
      = IF normalize_symbol(n) \in DOMAIN symbols
        THEN Some(symbols[normalize_symbol(n)]) ELSE None

\* the empty token is unresolved
C22_Empty == ~resolve_simple_value(symbols, <<>>).ok /\ ~resolve_simple_value(symbols, <<" ">>).ok

\* Pass 2 on operands that are also names of symbols
C22_Passes ==
  \A i \in 1..Len(p2) :
    /\ lines[i] = Ln_DW_AH => p2[i].bytes = <<10, 0>>
    /\ lines[i] = Ln_JUN_R1 => p2[i].bytes = <<64, 1>>
    /\ lines[i] = Ln_DB_Bases => p2[i].bytes = <<5, 31, 31>>
    /\ lines[i] = Ln_JUN_L =>
         IF <<"L">> \in DOMAIN symbols
         THEN p2[i].bytes = JunBytes(symbols[<<"L">>])
         ELSE p2[i].err = "UnknownSymbol"
    /\ lines[i] = Ln_DW_U => p2[i].err = "UnknownSymbol"

\* C22: simple resolution yields the numeric literal (decimal, 0x/0X, $,
\* h/H, 0b/0B) if the token is one, else the register number of Rn with
\* 0 <= n <= 15, else the symbol of that name, else nothing
C22_SimpleOrder == C22_LiteralFirst /\ C22_SymbolLast /\ C22_Empty /\ C22_Passes

\* AH and R1 are symbols, yet DW AH emits 0x0A and JUN R1 jumps to 1
C22_Witness ==
  /\ lines = <<Ln_AH_EQU, Ln_R1_EQU, Ln_DW_AH>> \/ lines = <<Ln_R1_EQU, Ln_AH_EQU, Ln_JUN_R1>>
  /\ symbols = (<<"A","H">> :> 5) @@ (<<"R","1">> :> 9)
  /\ Len(p2) = 3
  /\ p2[3].bytes \in {<<10, 0>>, <<64, 1>>}


(***************************************************************************)
(* C23: which operands go through resolve.                                 *)
(***************************************************************************)

C23_Tokens ==
  {<<"3">>, <<"0","x","1","F">>, <<"R","1">>, <<"R","4">>, <<"L">>, <<"U">>, <<"L","+","1">>, <<"R","1","+","1">>, <<"R","2","R","3">>, <<"R","3">>, <<>>, <<" ">>}

\* out is the error of r or, when r resolved, the bytes given
C23_From(out, r, bytes) == out = IF r.ok THEN Encoded(bytes) ELSE Raised(r.err)

C23_Value(tok) == resolve_value(symbols, tok)

C23_Encode(m, operand_str) == LineBytes(symbols, m, operand_str)

\* the value operands: immediate, address, condition, the address of ISZ,
\* the data of FIM, of DB and of DW
C23_ValueOperands ==
  \A tok \in C23_Tokens :
    /\ \A m \in C17_KindOf("IMMEDIATE") :
         C23_From(C23_Encode(m, tok), C23_Value(tok),
                  <<InstOf(m).opcode + (C23_Value(tok).v % 16)>>)
    /\ \A m \in {M_JUN, M_JMS} :
         C23_From(C23_Encode(m, tok), C23_Value(tok),
                  <<InstOf(m).opcode + ((C23_Value(tok).v \div 256) % 16),
                    C23_Value(tok).v % 256>>)
    /\ C23_From(C23_Encode(M_JCN, C18_Join(tok, <<"5">>)), C23_Value(tok),
                <<16 + (C23_Value(tok).v % 16), 5>>)
    /\ C23_From(C23_Encode(M_ISZ, C18_Join(<<"R","2">>, tok)), C23_Value(tok),
                <<114, C23_Value(tok).v % 256>>)
    /\ C23_From(C23_Encode(M_FIM, C18_Join(<<"R","2">>, tok)), C23_Value(tok),
                <<33, C23_Value(tok).v % 256>>)
    /\ C23_From(C23_Encode(<<"D","B">>, tok), C23_Value(tok),
                <<C23_Value(tok).v % 256>>)
    /\ C23_From(C23_Encode(<<"D","W">>, tok), C23_Value(tok),
                <<C23_Value(tok).v % 256, (C23_Value(tok).v \div 256) % 256>>)

\* the name is a symbol naming a register
C23_RegisterSymbol(n) == n \in DOMAIN symbols /\ symbols[n] \in 0..15

\* the lines of the pool with a register or a pair operand
C23_RegisterLines == {Ln_INC_3, Ln_INC_L, Ln_SRC_R2R3}

\* C23 as stated: a register or pair operand is accepted exactly when
\* resolve accepts its text
C23_Original ==
  \A i \in 1..Len(p2) :
    lines[i] \in C23_RegisterLines =>
      (p2[i].err = "" <=> C23_Value(LineStatement(lines[i]).operand_str).ok)

\* register and pair operands: INC 3 is refused though 3 resolves, INC L is
\* taken only when L names a register, SRC R2R3 is taken though resolve
\* refuses R2R3
C23_RegisterOperands ==
  /\ C23_Value(<<"3">>).ok
  /\ ~C23_Value(<<"R","2","R","3">>).ok
  /\ \A i \in 1..Len(p2) :
       /\ lines[i] = Ln_INC_3 => p2[i].err = "InvalidRegister"
       /\ lines[i] = Ln_INC_L =>
            IF C23_RegisterSymbol(<<"L">>)
            THEN p2[i].err = "" /\ p2[i].bytes = <<96 + symbols[<<"L">>]>>
            ELSE p2[i].err = "InvalidRegister"
       /\ lines[i] = Ln_SRC_R2R3 => p2[i].err = "" /\ p2[i].bytes = <<33>>

\* the value operands of the pool in Pass 2
C23_Passes ==
  \A i \in 1..Len(p2) :
    /\ lines[i] = Ln_LDM_R1 => p2[i].bytes = <<209>>
    /\ lines[i] = Ln_LDM_Lp1 =>
         IF <<"L">> \in DOMAIN symbols
         THEN p2[i].bytes = <<208 + ((symbols[<<"L">>] + 1) % 16)>>
         ELSE p2[i].err = "UnknownSymbol"

\* C23 (amended): every operand other than the register operand of a
\* Register-kind instruction and the pair operand of a RegisterPair-kind
\* instruction is accepted exactly when resolve accepts its text and is
\* encoded from the value resolve returns; register and pair operands go
\* through register and register-pair resolution instead
C23_ResolveEntryPoint == C23_ValueOperands /\ C23_RegisterOperands /\ C23_Passes

\* L is 0x123: LDM L+1 is encoded from the value 0x124 of the expression
C23_Witness ==
  /\ lines = <<Ln_ORG_123, Ln_L_NOP, Ln_LDM_Lp1>>
  /\ Len(p2) = 3
  /\ symbols[<<"L">>] = 291
  /\ p2[3].bytes = <<212>>


(***************************************************************************)
(* C24: what a standalone EQU binds.                                       *)
(***************************************************************************)

\* positions in bindLog of the declarations of the kinds given
C24_Declared(kinds) == {k \in 1..Len(bindLog) : bindLog[k].kind \in kinds}

\* the name declared last among them
C24_Last(kinds) ==
  bindLog[CHOOSE k \in C24_Declared(kinds) : \A j \in C24_Declared(kinds) : j <= k].name

\* table with name n bound to v and every other binding kept
C24_Bound(table, n, v) ==
  [k \in DOMAIN table \cup {n} |-> IF k = n THEN v ELSE table[k]]

\* Pass 1 is about to process the line "EQU 3"
C24_AtEqu == phase = "Pass1" /\ idx < Len(lines) /\ lines[idx + 1] = Ln_EQU

\* C24 as stated: the name bound is that of the most recent name: declaration
C24_OriginalStep ==
  (C24_AtEqu /\ C24_Declared({"label"}) # {}) =>
    symbols' = C24_Bound(symbols, C24_Last({"label"}), 3)

C24_Original == [][C24_OriginalStep]_vars

C24_Step ==
  (C24_AtEqu /\ C24_Declared({"label", "equ_inline"}) # {}) =>
    /\ symbols' = C24_Bound(symbols, C24_Last({"label", "equ_inline"}), 3)
    /\ phase' = "Pass1"

\* C24 (amended): a standalone EQU expr line binds the name declared last
\* before it, by a name: declaration or by a NAME EQU expr line, however
\* many lines earlier, to the value of expr, and changes no other binding
C24_EquBindsLastDeclared == [][C24_Step]_vars

\* two labels, then EQU: the second label is bound to 3, the first keeps 0
C24_Witness ==
  /\ lines = <<Ln_L_NOP, Ln_R1_NOP, Ln_EQU>>
  /\ Len(p1) = 3
  /\ symbols = (<<"L">> :> 0) @@ (<<"R","1">> :> 3)


(***************************************************************************)
(* C25: a session used for a second file.                                  *)
(***************************************************************************)

\* the call in progress is the second one on this session
Reused == \E k \in 1..Len(calls) : calls[k] = "assemble_file"

C25_Failed == [ok |-> FALSE, binary |-> <<>>, addresses |-> <<>>, symbols |-> NoSymbols]

\* pass_two over prog from line i on, in session s
RECURSIVE C25_PassTwo(_, _, _, _)
C25_AfterTwo(r, prog, i, addresses) ==
  IF r.err # "" THEN C25_Failed
  ELSE C25_PassTwo([symbols |-> r.symbols, current_address |-> r.current_address,
                    binary |-> r.binary], prog, i + 1, addresses)

C25_PassTwo(s, prog, i, addresses) ==
  IF i > Len(prog)
  THEN [ok |-> TRUE, binary |-> s.binary, addresses |-> addresses, symbols |-> s.symbols]
  ELSE C25_AfterTwo(PassTwoLine(s, prog[i], i), prog, i, Append(addresses, s.current_address))

\* pass_one over prog from line i on, in session s, then pass_two
RECURSIVE C25_PassOne(_, _, _)
C25_AfterOne(r, prog, i) ==
  IF r.err # "" THEN C25_Failed
  ELSE C25_PassOne([symbols |-> r.symbols, current_address |-> r.current_address,
                    org_address |-> r.org_address, last_label |-> r.last_label],
                   prog, i + 1)

C25_PassOne(s, prog, i) ==
  IF i > Len(prog)
  THEN C25_PassTwo([symbols |-> s.symbols, current_address |-> s.org_address,
                    binary |-> <<>>], prog, 1, <<>>)
  ELSE C25_AfterOne(PassOneLine(s, prog[i]), prog, i)

\* what a fresh session makes of each program
C25_Fresh ==
  [prog \in Programs(PoolReuse) |->
     C25_PassOne([symbols |-> NoSymbols, current_address |-> 0, org_address |-> 0,
                  last_label |-> NoneStr], prog, 1)]

\* what the session at hand made of its program, once both passes are over
C25_Outcome ==
  IF phase = "Write"
  THEN [ok |-> TRUE, binary |-> binary,
        addresses |-> [i \in 1..Len(p2) |-> p2[i].addr], symbols |-> symbols]
  ELSE C25_Failed

C25_PassesOver == phase = "Write" \/ (phase = "Failed" /\ error \in PassErrors)

\* the fold agrees with the session on a first use
C25_FirstUse == (~Reused /\ C25_PassesOver) => C25_Outcome = C25_Fresh[lines]

\* C25: a file assembled by a session that assembled another file before
\* comes out as from a fresh session: same success, bytes, listing addresses
\* and symbol table
C25_SameAsFresh == (Reused /\ C25_PassesOver) => C25_Outcome = C25_Fresh[lines]

\* JUN L alone is assembled by a session that met L in an earlier file
C25_Witness ==
  /\ Reused
  /\ lines = <<Ln_JUN_L>>
  /\ phase = "Done"
  /\ result = "True"
  /\ symbols = (<<"L">> :> 16)
  /\ bin_file = Some(<<64, 16>>)


\* pass_two went over every line and raised nothing
C26_Assembled ==
  /\ PassTwoEntered
  /\ Len(p2) = Len(lines)
  /\ \A i \in 1..Len(p2) : p2[i].err = ""

\* the lines of the program Pass 2 emitted bytes for
C26_Emitting == {i \in 1..Len(p2) : Len(p2[i].bytes) > 0}

\* C26: in a program assembled without error, wherever its ORG directives
\* stand, every line that emits bytes has in Pass 2 (cursor before emission)
\* the address Pass 1 computed for it
C26_SameAddresses ==
  C26_Assembled => \A i \in C26_Emitting : p2[i].addr = p1[i].addr

\* NOP, ORG 0x010, NOP went through both passes and came out as 17 bytes
C26_Witness ==
  /\ C26_Assembled
  /\ lines = <<Ln_NOP, Ln_ORG_010, Ln_NOP>>
  /\ p1[1].addr = 0
  /\ p2[1].addr = 16
  /\ Len(binary) = 17

\* the lines holding an ORG directive
OrgLines == {l \in AllLines : HasStatement(l) /\ LineStatement(l).mnemonic = M_ORG}

\* Pass 2 has processed an ORG directive
C27_OrgSeen == \E j \in 1..Len(p2) : lines[j] \in OrgLines /\ p2[j].err = ""

\* the lines Pass 2 emitted bytes for after an ORG directive
C27_Placed ==
  {i \in C26_Emitting : p2[i].err = "" /\ \E j \in 1..(i - 1) : lines[j] \in OrgLines}

\* the bytes of line i stand in the buffer from offset p2[i].addr on
C27_AtOffset(i) ==
  /\ Len(binary) >= p2[i].addr + Len(p2[i].bytes)
  /\ SubSeq(binary, p2[i].addr + 1, p2[i].addr + Len(p2[i].bytes)) = p2[i].bytes

\* C27: in Pass 2, once an ORG directive was processed, the buffer is as long
\* as the cursor after every line, and the bytes of a line at address a stand
\* at offsets a, a+1, ..., also after an ORG to below the buffer's length
C27_BufferFollowsCursor ==
  (PassTwoEntered /\ C27_OrgSeen) =>
     /\ Len(binary) = current_address
     /\ \A i \in C27_Placed : C27_AtOffset(i)

\* ORG 0x010, NOP, ORG 0x010: the second ORG sets the cursor back to 16
\* under a buffer of 17 bytes
C27_Witness ==
  /\ phase = "Done"
  /\ lines = <<Ln_ORG_010, Ln_NOP, Ln_ORG_010>>
  /\ current_address = 16
  /\ Len(binary) = 17


(***************************************************************************)
(* C28: the range of the register-pair index.                              *)
(***************************************************************************)

\* the lines whose instruction takes a register pair
C28_PairLines ==
  {l \in AllLines : /\ HasStatement(l)
                    /\ LineStatement(l).mnemonic \in C17_KindOf("REGISTER_PAIR")}

\* the text assemble_instruction resolves as the pair of line l
C28_Operand(l) ==
  IF LineStatement(l).mnemonic = M_FIM
  THEN TrimmedParts(LineStatement(l).operand_str)[1]
  ELSE LineStatement(l).operand_str

\* a resolved pair is an index the mask leaves as it is
C28_InRange(pair) == pair.ok => (pair.v \in 0..7 /\ Mask(pair.v, 3) = pair.v)

\* C28: every operand text register-pair resolution accepts resolves to an
\* index in 0..7, so that the mask at emission changes nothing
C28_PairIndexInRange ==
  \A i \in 1..Len(p2) :
    (p2[i].err = "" /\ lines[i] \in C28_PairLines)
      => C28_InRange(resolve_register_pair(symbols, C28_Operand(lines[i])))

\* FIN R18R19 was assembled: pair index 9, emitted as FIN with pair 1
C28_Witness ==
  /\ phase = "Done"
  /\ lines = <<Ln_FIN_High>>
  /\ resolve_register_pair(symbols, C28_Operand(Ln_FIN_High)) = Some(9)
  /\ bin_file = Some(<<49>>)


(***************************************************************************)
(* C29: the first byte tells instruction lines apart.                      *)
(***************************************************************************)

\* the operand of an instruction line as the index it stands for: a register,
\* a pair index or an immediate value; none (-1) when it does not resolve
C29_Index(kind, operand_str) ==
  IF kind = "NONE" THEN 0
  ELSE IF kind = "REGISTER"
    THEN (IF resolve_register(NoSymbols, operand_str).ok
          THEN resolve_register(NoSymbols, operand_str).v ELSE -1)
  ELSE IF kind = "REGISTER_PAIR"
    THEN (IF resolve_register_pair(NoSymbols, operand_str).ok
          THEN resolve_register_pair(NoSymbols, operand_str).v ELSE -1)
  ELSE IF kind = "IMMEDIATE"
    THEN (IF resolve_value(NoSymbols, operand_str).ok
          THEN resolve_value(NoSymbols, operand_str).v ELSE -1)
  ELSE -1

\* the largest index of each kind of operand
C29_Top(kind) == IF kind = "REGISTER_PAIR" THEN 7 ELSE 15

\* mnemonic and operand index of the instruction lines whose operand is a
\* register, a pair index in 0..7 or a nibble, literal and in range
C29_Keys ==
  [l \in {x \in PoolIndex :
            C29_Index(InstOf(LineStatement(x).mnemonic).op_type, C28_Operand(x))
              \in 0..C29_Top(InstOf(LineStatement(x).mnemonic).op_type)}
    |-> <<LineStatement(l).mnemonic,
          C29_Index(InstOf(LineStatement(l).mnemonic).op_type, C28_Operand(l))>>]

\* the lines of the program that were assembled and have a key
C29_Encoded ==
  {i \in 1..Len(p2) : lines[i] \in DOMAIN C29_Keys /\ p2[i].err = "" /\ p2[i].bytes # <<>>}

\* C29: two assembled instruction lines that differ in mnemonic, or in their
\* in-range register, pair index or nibble operand, differ in the first byte
\* they emit
C29_FirstByteInjective ==
  \A i, j \in C29_Encoded :
    C29_Keys[lines[i]] # C29_Keys[lines[j]] => p2[i].bytes[1] # p2[j].bytes[1]

\* SRC R0R1, SRC R2R3, JIN R0R1 were assembled: 21, 21, 31
C29_Witness ==
  /\ phase = "Done"
  /\ lines = <<Ln_SRC_R0R1, Ln_SRC_R2R3, Ln_JIN_R0R1>>
  /\ C29_Encoded = {1, 2, 3}
  /\ bin_file = Some(<<33, 33, 49>>)

====
